---- MODULE Spec2Model ----
(***************************************************************************)
(* Model of the qmr-compiler-generator solver: the mapping search          *)
(* (isomorphism search with watchdog, simulated annealing), the greedy     *)
(* route engine and the NISQ plug-in it is run with.                       *)
(***************************************************************************)
EXTENDS Integers, Sequences, FiniteSets, TLC

\* ------------------------------------------------------------------ bounds
\* Longest input circuit drawn in Init.
MaxGates == 2
\* Largest path-graph architecture drawn in Init.
MaxLoc == 3
\* Cap on the number of steps one routing run may push before the model stops it.
MaxSteps == 4
\* Cap on the iterations of the annealing loop (the code runs until temp <= TERM_TEMP).
MaxAnneal == 2

\* Number of logical qubits the NISQ input circuits are drawn over.
MaxQubits == 3
\* Side of the square trap grid (RaaArchitecture { width: size, height: size }).
MaxSide == 2
MaxVec == 2
MaxUtilGates == 3
MaxPairs == 4
MantissaBits == 8
MaxWorkers == 3
MaxCands == 3
MaxState == 2
MaxCost == 2

\* ------------------------------------------------------- program constants
SABRE_ITERATIONS == 3
default_parallel_searches == 32

\* ------------------------------------------------------------ option type
None == <<>>
Some(x) == <<x>>
IsSome(o) == Len(o) = 1
Unwrap(o) == o[1]

\* ------------------------------------------------------------- sequences
Range(s) == {s[i] : i \in 1..Len(s)}

RECURSIVE SeqSum(_)
SeqSum(s) == IF s = <<>> THEN 0 ELSE s[1] + SeqSum(Tail(s))

RECURSIVE Filter(_, _)
\* The subsequence of s whose elements are in the set keep (Vec::retain).
Filter(s, keep) ==
    IF s = <<>> THEN <<>>
    ELSE IF s[1] \in keep THEN <<s[1]>> \o Filter(Tail(s), keep)
         ELSE Filter(Tail(s), keep)

Reverse(s) == [i \in 1..Len(s) |-> s[Len(s) + 1 - i]]

RECURSIVE SetToSeq(_)
\* Some enumeration of a finite set.
SetToSeq(S) == IF S = {} THEN <<>>
               ELSE LET x == CHOOSE y \in S : TRUE IN <<x>> \o SetToSeq(S \ {x})

Abs(x) == IF x < 0 THEN -x ELSE x

RECURSIVE SortedSeq(_)
\* The elements of a finite set of integers in increasing order.
SortedSeq(S) ==
    IF S = {} THEN <<>>
    ELSE LET x == CHOOSE x \in S : \A y \in S : x <= y
         IN <<x>> \o SortedSeq(S \ {x})

\* The permutations of a sequence.
Perms(s) ==
    {[i \in 1..Len(s) |-> s[f[i]]] :
        f \in {g \in [1..Len(s) -> 1..Len(s)] : \A i, j \in 1..Len(s) : i # j => g[i] # g[j]}}

\* ------------------------------------------------------------- structures
Qubits == 0..(MaxQubits - 1)

\* CX gates the input circuits are built from (control < target).
GatePairs == {<<a, b>> : a \in Qubits, b \in Qubits} \ {p \in Qubits \X Qubits : p[1] >= p[2]}

Gate(i, qs) == [gate_type |-> "CX", qubits |-> qs, id |-> i]
GateT(i, q) == [gate_type |-> "T", qubits |-> <<q>>, id |-> i]

\* Circuit { gates, qubits }: extract_cnots numbers the gates 0, 1, ... in file order
\* and collects the qubits the gates mention.
GateQubits(g) == Range(g.qubits)
CircuitQubits(gates) == UNION {GateQubits(gates[i]) : i \in 1..Len(gates)}
extract_cnots(pairs) ==
    LET gates == [i \in 1..Len(pairs) |-> Gate(i - 1, pairs[i])]
    IN [gates |-> gates, qubits |-> CircuitQubits(gates)]

circuit_from_gates(gates) == [gates |-> gates, qubits |-> CircuitQubits(gates)]

InputCircuits ==
    {extract_cnots(ps) : ps \in UNION {[1..n -> GatePairs] : n \in 1..MaxGates}}

RECURSIVE FrontLayerFrom_taken(_, _)
\* A faulty loop that blocks only the qubits of the gates it has taken.
FrontLayerFrom_taken(gates, blocked_qubits) ==
    IF gates = <<>> THEN <<>>
    ELSE LET g == gates[1]
             not_blocked == GateQubits(g) \cap blocked_qubits = {}
         IN IF not_blocked
            THEN <<g>> \o FrontLayerFrom_taken(Tail(gates), blocked_qubits \cup GateQubits(g))
            ELSE FrontLayerFrom_taken(Tail(gates), blocked_qubits)

RECURSIVE FrontLayerFrom(_, _)
FrontLayerFrom(gates, blocked_qubits) ==
    IF gates = <<>> THEN <<>>
    ELSE LET g == gates[1]
             not_blocked == GateQubits(g) \cap blocked_qubits = {}
             rest == FrontLayerFrom(Tail(gates), blocked_qubits \cup GateQubits(g))
         IN IF not_blocked THEN <<g>> \o rest ELSE rest

\* Circuit::get_front_layer
\* A faulty front layer that offers every remaining gate.
get_front_layer_all(c) == c.gates

get_front_layer(c) == FrontLayerFrom(c.gates, {})

\* A faulty remove_gates that retains every gate.
remove_gates_none(c, gates) == c

\* Circuit::remove_gates: gates are equal when their ids are equal.
remove_gates(c, gates) ==
    LET ids == {g.id : g \in gates}
    IN [c EXCEPT !.gates = Filter(c.gates, {g \in Range(c.gates) : g.id \notin ids})]

\* Circuit::reversed
reversed(c) == [c EXCEPT !.gates = Reverse(c.gates)]

\* Step::gates
StepGates(step) == {gi.gate : gi \in step.implemented_gates}

Injective(m) == \A q1, q2 \in DOMAIN m : q1 # q2 => m[q1] # m[q2]

\* ----------------------------------------------------------- architecture
\* utils::path_graph(n): nodes 0..n-1, edges (i,i+1) and (i+1,i) in insertion order.
RECURSIVE PathEdges(_, _)
PathEdges(i, n) ==
    IF i >= n - 1 THEN <<>>
    ELSE <<<<i, i + 1>>, <<i + 1, i>>>> \o PathEdges(i + 1, n)

path_graph(n) == PathEdges(0, n)

\* NisqArchitecture::new(graph): the architecture of the NISQ plug-in.
NisqArchitecture(n) == [kind |-> "nisq", n |-> n, edges |-> path_graph(n)]

RECURSIVE Flatten(_)
\* The concatenation of a sequence of sequences, by halves.
Flatten(ss) ==
    IF ss = <<>> THEN <<>>
    ELSE IF Len(ss) = 1 THEN ss[1]
    ELSE LET h == Len(ss) \div 2
         IN Flatten(SubSeq(ss, 1, h)) \o Flatten(SubSeq(ss, h + 1, Len(ss)))

RECURSIVE Dedup(_, _)
\* Graph::update_edge adds an edge only when it is not in the graph yet.
Dedup(es, seen) ==
    IF es = <<>> THEN <<>>
    ELSE IF Len(es) = 1 THEN (IF es[1] \in seen THEN <<>> ELSE es)
    ELSE LET h == Len(es) \div 2
             left == SubSeq(es, 1, h)
         IN Dedup(left, seen) \o Dedup(SubSeq(es, h + 1, Len(es)), seen \cup Range(left))

\* ILQArch::get_graph: location (i, j, k) is i*width*stack_depth + j*stack_depth + k;
\* the cells are visited row by row and linked to the cells above, below, left and
\* right, every member of one stack to every member of the other, by update_edge.
IlqLoc(w, sd, i, j, k) == i * w * sd + j * sd + k
IlqLink(w, sd, i, j, i2, j2) ==
    Flatten([x \in 1..(sd * sd) |->
        LET k1 == (x - 1) \div sd
            k2 == (x - 1) % sd
            v1 == IlqLoc(w, sd, i, j, k1)
            v2 == IlqLoc(w, sd, i2, j2, k2)
        IN <<<<v1, v2>>, <<v2, v1>>>>])
IlqCellEdges(w, h, sd, i, j) ==
    (IF i > 0 THEN IlqLink(w, sd, i, j, i - 1, j) ELSE <<>>)
    \o (IF i < h - 1 THEN IlqLink(w, sd, i, j, i + 1, j) ELSE <<>>)
    \o (IF j > 0 THEN IlqLink(w, sd, i, j, i, j - 1) ELSE <<>>)
    \o (IF j < w - 1 THEN IlqLink(w, sd, i, j, i, j + 1) ELSE <<>>)
ilq_get_graph(w, h, sd) ==
    Dedup(Flatten([c \in 1..(w * h) |->
        IlqCellEdges(w, h, sd, (c - 1) \div w, (c - 1) % w)]), {})

\* An ILQArch value: the public fields, with the graph get_graph builds from them.
ILQArch(sd, w, h, alg, magic) ==
    [kind |-> "ilq", n |-> w * h * sd, edges |-> ilq_get_graph(w, h, sd),
     stack_depth |-> sd, width |-> w, height |-> h,
     alg_qubits |-> alg, magic_state_qubits |-> magic]

\* (groups.sqrt().ceil() as usize) for a whole number of groups.
CeilSqrt(g) == CHOOSE r \in 0..g : r * r >= g /\ (r = 0 \/ (r - 1) * (r - 1) < g)

\* ilqaa::square_sparse_layout: the two loops that push the algorithmic qubits,
\* the perimeter walked clockwise from the top-left corner, and every other
\* perimeter location taken as a magic-state qubit.
square_sparse_layout(alg_qubit_count, stack_depth) ==
    LET groups == (alg_qubit_count + stack_depth - 1) \div stack_depth
        width == 2 * CeilSqrt(groups) + 3
        height == width
        interior(coord) == coord > 0 /\ coord < width - 1
        Stack(i, j) == [k \in 1..stack_depth |-> IlqLoc(width, stack_depth, i, j, k - 1)]
        first == Flatten([i \in 1..(width * height) |->
                    LET x == (i - 1) % width
                        y == (i - 1) \div width
                    IN IF interior(x) /\ interior(y) /\ x % 2 = 0 /\ y % 2 = 0
                       THEN <<i - 1>> ELSE <<>>])
        second == Flatten([c \in 1..(height * width) |->
                    LET i == (c - 1) \div width
                        j == (c - 1) % width
                    IN IF interior(i) /\ interior(j) /\ i % 2 = 0 /\ j % 2 = 0
                       THEN Stack(i, j) ELSE <<>>])
        top_edge == Flatten([j \in 1..width |-> Stack(0, j - 1)])
        right_edge == Flatten([i \in 1..(height - 1) |-> Stack(i, width - 1)])
        bottom_edge == Flatten([j \in 1..(width - 1) |-> Stack(height - 1, width - 1 - j)])
        left_edge == Flatten([i \in 1..(height - 2) |->
                        [k \in 1..stack_depth |-> (height - 1 - i) * width * stack_depth + k - 1]])
        perimeter == top_edge \o right_edge \o bottom_edge \o left_edge
        magic_state_qubits == [i \in 1..(Len(perimeter) \div 2) |-> perimeter[2 * i]]
    IN ILQArch(stack_depth, width, height, first \o second, magic_state_qubits)

\* The nodes of arch.graph().
Nodes(arch) == 0..(arch.n - 1)

\* Architecture::locations: every node for the NISQ plug-in, the algorithmic
\* qubits for the ILQ plug-in.
locations(arch) ==
    IF arch.kind = "ilq" THEN arch.alg_qubits ELSE [i \in 1..arch.n |-> i - 1]

contains_edge(arch, u, v) == <<u, v>> \in Range(arch.edges)

RECURSIVE Ball(_, _, _)
\* The nodes within k edges of the set from.
Ball(arch, from, k) ==
    IF k = 0 THEN from
    ELSE LET b == Ball(arch, from, k - 1)
         IN b \cup {e[2] : e \in {x \in Range(arch.edges) : x[1] \in b}}

\* petgraph::algo::astar with unit edge cost and zero estimate: the hop distance,
\* or None when the target is unreachable.
astar(arch, a, b) ==
    LET ks == {k \in 0..arch.n : b \in Ball(arch, {a}, k)}
    IN IF ks = {} THEN None ELSE Some(CHOOSE k \in ks : \A j \in ks : k <= j)

\* Graph::neighbors in the graph with the blocked nodes removed: the targets of the
\* outgoing edges of v, the edge added last first.  remove_node keeps the relative
\* order of the edges that stay.
neighbors(arch, blocked, v) ==
    LET Keeps(e) == e[1] = v /\ e[2] \notin blocked
        out == SelectSeq(Reverse(arch.edges), Keeps)
    IN [i \in 1..Len(out) |-> out[i][2]]

\* utils::vertical_neighbors and utils::horizontal_neighbors
vertical_neighbors(loc, width, height) ==
    (IF loc \div width > 0 THEN <<loc - width>> ELSE <<>>)
    \o (IF loc \div width < height - 1 THEN <<loc + width>> ELSE <<>>)
horizontal_neighbors(loc, width) ==
    (IF loc % width > 0 THEN <<loc - 1>> ELSE <<>>)
    \o (IF loc % width < width - 1 THEN <<loc + 1>> ELSE <<>>)

\* all_paths removes the blocked locations one by one; loc_to_node[loc] panics on a
\* location that is not a node of the graph or that was removed already.
all_paths_panics(arch, blocked) ==
    \/ \E i \in 1..Len(blocked) : blocked[i] \notin Nodes(arch)
    \/ \E i, j \in 1..Len(blocked) : i < j /\ blocked[i] = blocked[j]

RECURSIVE PathsNext(_, _, _, _, _, _)
\* One call of the closure all_paths returns: one unfolding per iteration of its
\* while loop, up to the next path it yields (path) or to exhaustion (None); st is
\* the closure's state after the call.
PathsNext(arch, blocked, ends, unblocked_starts, unblocked_ends, st) ==
    IF st.start_counter >= Len(unblocked_starts) THEN [path |-> None, st |-> st]
    ELSE IF st.stack # <<>> THEN
        LET top == Len(st.stack)
            children == st.stack[top]
            popped == [st EXCEPT !.stack = SubSeq(@, 1, top - 1),
                                 !.visited = SubSeq(@, 1, Len(@) - 1)]
        IN IF children # <<>> THEN
              LET loc == Head(children)
                  rest == Tail(children)
                  st1 == [st EXCEPT !.stack[top] = rest]
              IN IF Len(st.visited) < arch.n THEN
                    IF loc \in Range(ends) THEN
                        [path |-> Some(st.visited \o <<loc>>), st |-> st1]
                    ELSE IF loc \notin Range(st.visited) THEN
                        PathsNext(arch, blocked, ends, unblocked_starts, unblocked_ends,
                            [st1 EXCEPT !.visited = Append(@, loc),
                                        !.stack = Append(@, neighbors(arch, blocked, loc))])
                    ELSE PathsNext(arch, blocked, ends, unblocked_starts, unblocked_ends, st1)
                 ELSE
                    IF loc \in Range(unblocked_ends) THEN
                        [path |-> Some(st.visited \o <<loc>>), st |-> st1]
                    ELSE IF \E i \in 1..Len(rest) : rest[i] \in Range(unblocked_ends) THEN
                        LET hit == CHOOSE i \in 1..Len(rest) :
                                      /\ rest[i] \in Range(unblocked_ends)
                                      /\ \A j \in 1..(i - 1) : rest[j] \notin Range(unblocked_ends)
                        IN [path |-> Some(st.visited \o <<loc>>),
                            st |-> [st EXCEPT !.stack[top] = SubSeq(rest, hit + 1, Len(rest))]]
                    ELSE PathsNext(arch, blocked, ends, unblocked_starts, unblocked_ends, popped)
           ELSE PathsNext(arch, blocked, ends, unblocked_starts, unblocked_ends, popped)
    ELSE
        LET sc == st.start_counter + 1
        IN IF sc < Len(unblocked_starts) THEN
              PathsNext(arch, blocked, ends, unblocked_starts, unblocked_ends,
                  [start_counter |-> sc,
                   visited |-> <<unblocked_starts[sc + 1]>>,
                   stack |-> <<neighbors(arch, blocked, unblocked_starts[sc + 1])>>])
           ELSE [path |-> None,
                 st |-> [start_counter |-> sc, visited |-> st.visited, stack |-> <<>>]]

RECURSIVE PathsRun(_, _, _, _, _, _)
\* The iterator run to exhaustion: the yielded paths in order.
PathsRun(arch, blocked, ends, unblocked_starts, unblocked_ends, st) ==
    LET r == PathsNext(arch, blocked, ends, unblocked_starts, unblocked_ends, st)
    IN IF r.path = None THEN <<>>
       ELSE <<Unwrap(r.path)>>
            \o PathsRun(arch, blocked, ends, unblocked_starts, unblocked_ends, r.st)

\* The state of the closure when all_paths returns it.
PathsInit(arch, gone, unblocked_starts) ==
    IF unblocked_starts # <<>>
    THEN [start_counter |-> 0,
          visited |-> <<unblocked_starts[1]>>,
          stack |-> <<neighbors(arch, gone, unblocked_starts[1])>>]
    ELSE [start_counter |-> 0, visited |-> <<>>, stack |-> <<>>]

\* utils::all_paths: every path the iterator yields, in the order it yields them.
all_paths(arch, starts, ends, blocked) ==
    LET gone == Range(blocked)
        Unblocked(x) == x \in Nodes(arch) \ gone
        unblocked_starts == SelectSeq(starts, Unblocked)
        unblocked_ends == SelectSeq(ends, Unblocked)
    IN PathsRun(arch, gone, ends, unblocked_starts, unblocked_ends,
                PathsInit(arch, gone, unblocked_starts))

\* The first item of the iterator all_paths returns (None when it yields nothing).
all_paths_first(arch, starts, ends, blocked) ==
    LET gone == Range(blocked)
        Unblocked(x) == x \in Nodes(arch) \ gone
        unblocked_starts == SelectSeq(starts, Unblocked)
        unblocked_ends == SelectSeq(ends, Unblocked)
    IN PathsNext(arch, gone, ends, unblocked_starts, unblocked_ends,
                 PathsInit(arch, gone, unblocked_starts)).path

\* shortest_path: let (mut graph, mut loc_to_node) = arch.graph(), and the loop
\* over blocked.  Node k of the model is NodeIndex k - 1; a fresh graph holds
\* Location k - 1 there.  Graph::remove_node moves the last node into the removed
\* index and drops the removed node's edges.
RECURSIVE RemoveBlocked(_, _)
RemoveBlocked(graph, blocked) ==
    IF blocked = <<>> THEN graph
    ELSE LET loc == Head(blocked)
             last == Len(graph.weight)
             old_last == graph.weight[last]
             i == graph.loc_to_node[loc]
             Moved(x) == IF x = last THEN i ELSE x
             kept == {e \in graph.edges : e[1] # i /\ e[2] # i}
         IN RemoveBlocked(
              [weight |-> [k \in 1..(last - 1) |-> IF k = i THEN old_last ELSE graph.weight[k]],
               edges |-> {<<Moved(e[1]), Moved(e[2])>> : e \in kept},
               loc_to_node |-> [l \in (DOMAIN graph.loc_to_node \cup {old_last}) \ {loc} |->
                                  IF l = old_last THEN i ELSE graph.loc_to_node[l]]],
              Tail(blocked))

RECURSIVE SimpleWalks(_, _, _)
\* The walks of k edges from node a that visit no node twice.
SimpleWalks(graph, a, k) ==
    IF k = 0 THEN {<<a>>}
    ELSE UNION {{Append(w, e[2]) : e \in {x \in graph.edges : x[1] = w[Len(w)] /\ x[2] \notin Range(w)}} :
                  w \in SimpleWalks(graph, a, k - 1)}

\* petgraph::algo::astar(&graph, a, |finish| finish == b, |_e| 1, |_| 0): None when
\* b is unreachable, else the hop distance with a path of that many edges; which
\* of the shortest paths it returns is petgraph's choice.
AstarPaths(graph, a, b) ==
    LET Reaches(k) == {w \in SimpleWalks(graph, a, k) : w[Len(w)] = b}
        ks == {k \in 0..(Len(graph.weight) - 1) : Reaches(k) # {}}
    IN IF ks = {} THEN None
       ELSE LET d == CHOOSE k \in ks : \A j \in ks : k <= j
            IN Some([cost |-> d, paths |-> Reaches(d)])

RECURSIVE BestPath(_, _, _)
\* The two loops of shortest_path over starts and ends, on the pairs in the order
\* the loops visit them: best after the last pair.
BestPath(graph, pairs, best) ==
    IF pairs = <<>> THEN best
    ELSE LET start == pairs[1][1]
             end == pairs[1][2]
         IN IF start \in DOMAIN graph.loc_to_node /\ end \in DOMAIN graph.loc_to_node
            THEN LET res == AstarPaths(graph, graph.loc_to_node[start], graph.loc_to_node[end])
                 IN IF best = None \/ (IsSome(res) /\ Unwrap(res).cost < Unwrap(best).cost)
                    THEN BestPath(graph, Tail(pairs), res)
                    ELSE BestPath(graph, Tail(pairs), best)
            ELSE BestPath(graph, Tail(pairs), best)

\* shortest_path panics where all_paths does, on loc_to_node[loc] of a blocked
\* location that is no node or was removed already.
shortest_path_panics(arch, blocked) == all_paths_panics(arch, blocked)

\* A faulty shortest_path that keeps the first connected pair.
shortest_path_first(arch, starts, ends, blocked) ==
    LET fresh == [weight |-> [k \in 1..arch.n |-> k - 1],
                  edges |-> {<<e[1] + 1, e[2] + 1>> : e \in Range(arch.edges)},
                  loc_to_node |-> [l \in Nodes(arch) |-> l + 1]]
        graph == RemoveBlocked(fresh, blocked)
        pairs == Flatten([i \in 1..Len(starts) |-> [j \in 1..Len(ends) |-> <<starts[i], ends[j]>>]])
        Connected(pr) == BestPath(graph, <<pr>>, None) # None
        found == SelectSeq(pairs, Connected)
        best == BestPath(graph, SubSeq(found, 1, 1), None)
    IN IF best = None THEN {None}
       ELSE {Some([i \in 1..Len(path) |-> graph.weight[path[i]]]) : path \in Unwrap(best).paths}

\* utils::shortest_path: the values it can return.
shortest_path(arch, starts, ends, blocked) ==
    LET fresh == [weight |-> [k \in 1..arch.n |-> k - 1],
                  edges |-> {<<e[1] + 1, e[2] + 1>> : e \in Range(arch.edges)},
                  loc_to_node |-> [l \in Nodes(arch) |-> l + 1]]
        graph == RemoveBlocked(fresh, blocked)
        pairs == Flatten([i \in 1..Len(starts) |-> [j \in 1..Len(ends) |-> <<starts[i], ends[j]>>]])
        best == BestPath(graph, pairs, None)
    IN IF best = None THEN {None}
       ELSE {Some([i \in 1..Len(path) |-> graph.weight[path[i]]]) : path \in Unwrap(best).paths}

\* ------------------------------------------------------------ NISQ plug-in
\* swap_on_edge: every qubit at locs[1] goes to locs[2] and the other way round.
swap_on_edge(map, locs) ==
    [q \in DOMAIN map |->
        IF map[q] = locs[1] THEN locs[2]
        ELSE IF map[q] = locs[2] THEN locs[1]
        ELSE map[q]]

EmptyStep(map) == [map |-> map, implemented_gates |-> {}]

\* NisqTrans::apply
NisqTransApply(trans, step) ==
    [map |-> swap_on_edge(step.map, trans.edge), implemented_gates |-> {}]

\* NisqTrans::repr: the Debug rendering, which is determined by the edge.
NisqTransRepr(trans) == <<"NisqTrans", trans.edge[1], trans.edge[2]>>

\* NisqTrans::cost
NisqTransCost(trans) == IF trans.edge[1] = trans.edge[2] THEN 0 ELSE 1

\* nisq_transitions: the identity (0,0) first, then one transition per graph edge.
nisq_transitions(arch) ==
    <<[edge |-> <<0, 0>>]>> \o [i \in 1..Len(arch.edges) |-> [edge |-> arch.edges[i]]]

\* nisq_implement_gate: the candidate implementations of one gate (at most one).
nisq_implement_gate(step, arch, gate) ==
    LET q0 == gate.qubits[1]
        q1 == gate.qubits[2]
    IN IF /\ q0 \in DOMAIN step.map
          /\ q1 \in DOMAIN step.map
          /\ contains_edge(arch, step.map[q0], step.map[q1])
       THEN <<[edge |-> <<step.map[q0], step.map[q1]>>]>>
       ELSE <<>>

\* nisq_step_cost
nisq_step_cost(step, arch) == 0

\* nisq.rs mapping_heuristic unwraps the location of each gate qubit and the astar result.
nisq_mapping_heuristic_panics(arch, c, map) ==
    \E i \in 1..Len(c.gates) :
        LET g == c.gates[i]
        IN \/ g.qubits[1] \notin DOMAIN map
           \/ g.qubits[2] \notin DOMAIN map
           \/ astar(arch, map[g.qubits[1]], map[g.qubits[2]]) = None

\* nisq.rs mapping_heuristic: the sum of the hop distances between the qubits of each gate.
nisq_mapping_heuristic(arch, c, map) ==
    SeqSum([i \in 1..Len(c.gates) |->
        Unwrap(astar(arch, map[c.gates[i].qubits[1]], map[c.gates[i].qubits[2]]))])

\* ------------------------------------------------------------- ILQ plug-in
CODE_DISTANCE == 11

\* IdTransition: apply keeps the map and empties the implemented set; cost 0.
IdTransition == [id |-> "id"]
identity_application(step) == [map |-> step.map, implemented_gates |-> {}]
ilq_transitions(step) == <<IdTransition>>

IsLatticeSurgery(impl) == "path" \in DOMAIN impl

\* ilq_step_cost
ilq_step_cost(step, arch) ==
    IF \E g \in step.implemented_gates : IsLatticeSurgery(g.implementation)
    THEN CODE_DISTANCE ELSE 1

\* The locations all_paths is told to avoid: the mapped locations, the magic-state
\* locations and the paths of the lattice-surgery gates already in the step.
IlqBlocked(step, arch) ==
    LET qs == SortedSeq(DOMAIN step.map)
        mapped == [i \in 1..Len(qs) |-> step.map[qs[i]]]
        ls == {g \in step.implemented_gates : IsLatticeSurgery(g.implementation)}
        ids == SortedSeq({g.gate.id : g \in ls})
        paths == Flatten([i \in 1..Len(ids) |->
                    (CHOOSE g \in ls : g.gate.id = ids[i]).implementation.path])
    IN mapped \o arch.magic_state_qubits \o paths

IlqTransversal(step, arch, gate) ==
    /\ gate.gate_type = "CX"
    /\ step.map[gate.qubits[1]] \div arch.stack_depth
         = step.map[gate.qubits[2]] \div arch.stack_depth

\* ilq_implement_gate indexes the map with the gate's qubits and hands the blocked
\* list to all_paths; either can panic.
ilq_implement_gate_panics(step, arch, gate) ==
    \/ \E i \in 1..Len(gate.qubits) : gate.qubits[i] \notin DOMAIN step.map
    \/ /\ ~IlqTransversal(step, arch, gate)
       /\ all_paths_panics(arch, IlqBlocked(step, arch))

\* The starts and ends ilq_implement_gate hands to all_paths.
IlqStarts(step, arch, gate) ==
    vertical_neighbors(step.map[gate.qubits[1]], arch.width, arch.height)
IlqEnds(step, arch, gate) ==
    IF gate.gate_type = "CX"
    THEN horizontal_neighbors(step.map[gate.qubits[2]], arch.width)
    ELSE Flatten([i \in 1..Len(arch.magic_state_qubits) |->
            horizontal_neighbors(arch.magic_state_qubits[i], arch.width)])

\* ilq_implement_gate: the candidate implementations in the order they are yielded.
ilq_implement_gate(step, arch, gate) ==
    IF IlqTransversal(step, arch, gate)
    THEN <<[ctrl |-> step.map[gate.qubits[1]], tar |-> step.map[gate.qubits[2]]]>>
    ELSE LET ps == all_paths(arch, IlqStarts(step, arch, gate), IlqEnds(step, arch, gate),
                             IlqBlocked(step, arch))
         IN [i \in 1..Len(ps) |-> [path |-> ps[i]]]

\* The first candidate ilq_implement_gate yields, the rest of the iterator left
\* unevaluated.
ilq_implement_gate_first(step, arch, gate) ==
    IF IlqTransversal(step, arch, gate)
    THEN Some([ctrl |-> step.map[gate.qubits[1]], tar |-> step.map[gate.qubits[2]]])
    ELSE LET p == all_paths_first(arch, IlqStarts(step, arch, gate),
                                  IlqEnds(step, arch, gate), IlqBlocked(step, arch))
         IN IF p = None THEN None ELSE Some([path |-> Unwrap(p)])

\* ilqaa.rs mapping_heuristic: the CX gates whose qubits sit in different blocks of 4.
ilq_mapping_heuristic_panics(arch, c, map) ==
    \E i \in 1..Len(c.gates) :
        /\ c.gates[i].gate_type = "CX"
        /\ \E k \in 1..2 : c.gates[i].qubits[k] \notin DOMAIN map
ilq_mapping_heuristic(arch, c, map) ==
    SeqSum([i \in 1..Len(c.gates) |->
        IF /\ c.gates[i].gate_type = "CX"
           /\ map[c.gates[i].qubits[1]] \div 4 # map[c.gates[i].qubits[2]] \div 4
        THEN 1 ELSE 0])

\* -------------------------------------------------------------- RAA plug-in
\* RaaArchitecture: a width x height grid of trap sites, location i*height + j.
RaaArchitecture(width, height) ==
    [kind |-> "raa", n |-> width * height, edges |-> <<>>, width |-> width, height |-> height]

\* (index / arch.height, index % arch.height)
RaaCoords(loc, arch) == <<loc \div arch.height, loc % arch.height>>

\* The inverse maps consistent collects from a displacement map: where two keys
\* have the same value, the key that the hash map's iteration visits last stays.
Inverses(f) ==
    {g \in [{f[k] : k \in DOMAIN f} -> DOMAIN f] : \A v \in DOMAIN g : f[g[v]] = v}

\* raa.rs consistent, with the two inverse maps it builds passed in.
consistent(shuttle, row_displacements, col_displacements, inverse_row_displacements, inverse_col_displacements) ==
    LET src_col == shuttle[1][1]
        src_row == shuttle[1][2]
        dst_col == shuttle[2][1]
        dst_row == shuttle[2][2]
    IN IF src_col \in DOMAIN col_displacements /\ col_displacements[src_col] # dst_col
       THEN FALSE
       ELSE IF /\ dst_col \in DOMAIN inverse_col_displacements
               /\ src_col # inverse_col_displacements[dst_col]
       THEN FALSE
       ELSE IF \E k \in DOMAIN col_displacements :
                  k > src_col /\ col_displacements[k] <= dst_col
       THEN FALSE
       ELSE IF src_row \in DOMAIN row_displacements /\ row_displacements[src_row] # dst_row
       THEN FALSE
       ELSE IF /\ dst_row \in DOMAIN inverse_row_displacements
               /\ src_row # inverse_row_displacements[dst_row]
       THEN FALSE
       ELSE IF \E k \in DOMAIN row_displacements :
                  k > src_row /\ row_displacements[k] <= dst_row
       THEN FALSE
       ELSE TRUE

\* The displacement maps raa_implement_gate fills from the moves already in the
\* step: one insert per move in the hash map's iteration order, a later insert
\* replacing an earlier one under the same key.  Every iteration order is taken.
RaaDisplacements(step, arch) ==
    LET moves == {gi.implementation : gi \in step.implemented_gates}
        orders == {f \in [moves -> 1..Cardinality(moves)] : Injective(f)}
        Last(f, ms) == CHOOSE m \in ms : \A o \in ms : f[o] <= f[m]
        RowKey(m) == RaaCoords(m.src, arch)[1]
        ColKey(m) == RaaCoords(m.src, arch)[2]
    IN {[row |-> [k \in {RowKey(m) : m \in moves} |->
                    RaaCoords(Last(f, {m \in moves : RowKey(m) = k}).dst, arch)[1]],
         col |-> [k \in {ColKey(m) : m \in moves} |->
                    RaaCoords(Last(f, {m \in moves : ColKey(m) = k}).dst, arch)[2]]] :
          f \in orders}

\* raa_implement_gate indexes the map with the gate's two qubits.
raa_implement_gate_panics(step, arch, gate) ==
    \E i \in 1..2 : gate.qubits[i] \notin DOMAIN step.map

\* raa_implement_gate: the vector of candidates, moving the control to the target
\* if that is consistent with the moves in the step, then moving the target to
\* the control if that is.  The set holds the vector for every iteration order of
\* the hash maps.
raa_implement_gate(step, arch, gate) ==
    LET ctrl_coords == RaaCoords(step.map[gate.qubits[1]], arch)
        tar_coords == RaaCoords(step.map[gate.qubits[2]], arch)
    IN {(IF consistent(<<ctrl_coords, tar_coords>>, x[1].row, x[1].col, x[2], x[3])
         THEN <<[src |-> step.map[gate.qubits[1]], dst |-> step.map[gate.qubits[2]]]>>
         ELSE <<>>)
        \o (IF consistent(<<tar_coords, ctrl_coords>>, x[1].row, x[1].col, x[2], x[3])
            THEN <<[src |-> step.map[gate.qubits[2]], dst |-> step.map[gate.qubits[1]]]>>
            ELSE <<>>) :
          x \in UNION {{d} \X Inverses(d.row) \X Inverses(d.col) :
                         d \in RaaDisplacements(step, arch)}}

\* RaaMove::apply
RaaMoveApply(trans, step) ==
    [map |-> [step.map EXCEPT ![trans.qubit] = trans.dst], implemented_gates |-> {}]

\* RaaMove::repr
RaaMoveRepr(trans) == <<"RELOCATE", trans.qubit, trans.dst>>

\* RaaMove::cost
RaaMoveCost(trans) == trans.cost

\* The f64 costs of the RAA plug-in in units of 1e-9, rounded to the nearest
\* unit; d2 is the square of the distance.
\*   -ln(1 - move_time / T2),  move_time = sqrt(2.5 * RYDBERG_RADIUS * dist / ACCELERATION_CONST)
RaaActiveLoss(d2) ==
    <<0, 49238, 58554, 64801, 69633, 73629, 77062, 80090, 82809>>[d2 + 1]
\*   -ln(1 - (move_time + 4 * ATOM_TRANSFER_TIME) / T2) - ln(EXCITEMENT_FIDELITY)
RaaIdleLoss(d2) ==
    <<2543131, 2592371, 2601688, 2607935, 2612767, 2616763, 2620197, 2623225,
      2625944>>[d2 + 1]
\*   -ln(TWO_QUBIT_GATE_FIDELITY)
RaaGateLoss == 5012542
\*   -ln(ATOM_TRANSFER_FIDELITY)
RaaTransferLoss == 1000500

\* The moves raa_transitions_dyn_map pushes for one move of the step: the qubit
\* at its source may go to any location that holds no qubit or is that source, at
\* a cost taken from the distance between the move's destination and that location.
RaaMovesOf(raa_move, step, arch) ==
    LET aod_qubit == CHOOSE q \in DOMAIN step.map : step.map[q] = raa_move.src
        slm_qubit == CHOOSE q \in DOMAIN step.map : step.map[q] = raa_move.dst
        src_coords == RaaCoords(step.map[slm_qubit], arch)
        Dist2(dst) == (src_coords[1] - RaaCoords(dst, arch)[1]) ^ 2
                      + (src_coords[2] - RaaCoords(dst, arch)[2]) ^ 2
        Free(dst) == ~\E q \in DOMAIN step.map :
                        step.map[q] = dst /\ step.map[q] # raa_move.src
        free == SelectSeq(locations(arch), Free)
    IN [i \in 1..Len(free) |->
          [qubit |-> aod_qubit, dst |-> free[i], cost |-> RaaActiveLoss(Dist2(free[i]))]]

\* raa_transitions_dyn_map: the moves of every move of the step, the moves of the
\* step taken in the hash set's iteration order.  One vector per order.
raa_transitions_dyn_map(step, arch) ==
    LET impls == {gi.implementation : gi \in step.implemented_gates}
    IN {Flatten([i \in 1..Len(o) |-> RaaMovesOf(o[i], step, arch)]) :
          o \in Perms(SetToSeq(impls))}

\* raa_step_cost.  The target's second coordinate is read from the control
\* (qubits[0]), so dist is the difference of the first coordinates.
raa_step_cost(step, arch) ==
    LET gates == StepGates(step)
        Dist(g) == Abs(RaaCoords(step.map[g.qubits[1]], arch)[1]
                       - RaaCoords(step.map[g.qubits[2]], arch)[1])
        max_dist == IF gates = {} THEN 0
                    ELSE CHOOSE d \in {Dist(g) : g \in gates} :
                           \A g \in gates : Dist(g) <= d
        active_qubit_count == Cardinality(UNION {GateQubits(g) : g \in gates})
        inactive_qubit_count == Cardinality(DOMAIN step.map) - active_qubit_count
        Times(n) == IF n > 1 THEN n - 1 ELSE 0
    IN RaaGateLoss * Cardinality(gates)
       + RaaTransferLoss * active_qubit_count
       + Times(active_qubit_count) * RaaActiveLoss(max_dist * max_dist)
       + Times(inactive_qubit_count) * RaaIdleLoss(max_dist * max_dist)

\* ------------------------------------------- the plug-in handed to the solver
\* nisq_solve and nisq_solve_sabre pass the NISQ functions with
\* explore_routing_orders = false, ilq_solve the ILQ functions and raa_solve the
\* RAA functions with true.
explore_routing_orders(arch) == arch.kind \in {"ilq", "raa"}
\* The vectors the plug-in's transitions closure can return for a step.  A caller
\* of solve may pass any closure; the kind "no_transitions" is the NISQ plug-in
\* with a closure that returns the empty vector.
transitions(arch, step) ==
    IF arch.kind = "ilq" THEN {ilq_transitions(step)}
    ELSE IF arch.kind = "raa" THEN raa_transitions_dyn_map(step, arch)
    ELSE IF arch.kind = "no_transitions" THEN {<<>>}
    ELSE {nisq_transitions(arch)}
TransApply(trans, step) ==
    IF "edge" \in DOMAIN trans THEN NisqTransApply(trans, step)
    ELSE IF "qubit" \in DOMAIN trans THEN RaaMoveApply(trans, step)
    ELSE identity_application(step)
TransCost(trans) ==
    IF "edge" \in DOMAIN trans THEN NisqTransCost(trans)
    ELSE IF "qubit" \in DOMAIN trans THEN RaaMoveCost(trans)
    ELSE 0
TransRepr(trans) ==
    IF "edge" \in DOMAIN trans THEN NisqTransRepr(trans)
    ELSE IF "qubit" \in DOMAIN trans THEN RaaMoveRepr(trans)
    ELSE <<"id">>
implement_gate_panics(step, arch, gate) ==
    \/ arch.kind = "ilq" /\ ilq_implement_gate_panics(step, arch, gate)
    \/ arch.kind = "raa" /\ raa_implement_gate_panics(step, arch, gate)
\* The candidates implement_gate can yield for a gate.
implement_gate(step, arch, gate) ==
    IF arch.kind = "ilq" THEN Range(ilq_implement_gate(step, arch, gate))
    ELSE IF arch.kind = "raa"
    THEN UNION {Range(v) : v \in raa_implement_gate(step, arch, gate)}
    ELSE Range(nisq_implement_gate(step, arch, gate))
\* What max_step takes for a gate: the first candidate or None, one value per
\* outcome of the plug-in.
implement_gate_first(step, arch, gate) ==
    LET First(v) == IF v = <<>> THEN None ELSE Some(v[1])
    IN IF arch.kind = "ilq" THEN {ilq_implement_gate_first(step, arch, gate)}
       ELSE IF arch.kind = "raa"
       THEN {First(v) : v \in raa_implement_gate(step, arch, gate)}
       ELSE {First(nisq_implement_gate(step, arch, gate))}
step_cost(step, arch) ==
    IF arch.kind = "ilq" THEN ilq_step_cost(step, arch)
    ELSE IF arch.kind = "raa" THEN raa_step_cost(step, arch)
    ELSE nisq_step_cost(step, arch)
\* raa_solve passes no mapping heuristic: route is given |_c, _m| 0.0.
heuristic_panics(arch, c, map) ==
    IF arch.kind = "ilq" THEN ilq_mapping_heuristic_panics(arch, c, map)
    ELSE IF arch.kind = "raa" THEN FALSE
    ELSE nisq_mapping_heuristic_panics(arch, c, map)
heuristic(arch, c, map) ==
    IF arch.kind = "ilq" THEN ilq_mapping_heuristic(arch, c, map)
    ELSE IF arch.kind = "raa" THEN 0
    ELSE nisq_mapping_heuristic(arch, c, map)

\* ------------------------------------------------------------------- utils
ALPHA == 1
BETA == 1
GAMMA == 1
DELTA == 1

\* A score is NaN or the rational num/den with den > 0.
NaN == [nan |-> TRUE, num |-> 0, den |-> 1]
Ratio(n, d) == [nan |-> FALSE, num |-> n, den |-> d]

\* drop_zeros_and_normalize: total_weight sums the weights of the nonzero values;
\* every value is then scaled by w / total_weight.  With total_weight = 0.0 each
\* term is (w / 0.0) * 0.0 = inf * 0.0, which is NaN.
drop_zeros_and_normalize(ws, vs) ==
    LET total_weight == SeqSum([i \in 1..Len(vs) |-> IF vs[i] # 0 THEN ws[i] ELSE 0])
        weighted == SeqSum([i \in 1..Len(vs) |-> ws[i] * vs[i]])
    IN IF total_weight = 0 THEN NaN ELSE Ratio(weighted, total_weight)

RECURSIVE Pow2(_)
Pow2(k) == IF k = 0 THEN 1 ELSE 2 * Pow2(k - 1)

RECURSIVE Normalized(_, _, _)
\* The exponent e and the scaled fraction n/d = a / 2^e that lies in
\* [2^(MantissaBits - 1), 2^MantissaBits), for a positive fraction a = n/d.
Normalized(n, d, e) ==
    IF n >= Pow2(MantissaBits) * d THEN Normalized(n, 2 * d, e + 1)
    ELSE IF n < Pow2(MantissaBits - 1) * d THEN Normalized(2 * n, d, e - 1)
    ELSE [n |-> n, d |-> d, e |-> e]

RECURSIVE Dyadic(_, _)
\* m / 2^k in lowest terms.
Dyadic(m, k) ==
    IF k > 0 /\ m % 2 = 0 THEN Dyadic(m \div 2, k - 1) ELSE Ratio(m, Pow2(k))

\* The result of one f64 operation whose exact value is n/d (d # 0): the nearest
\* number with a significand of MantissaBits bits, ties to the even significand.
\* (An f64 has 53 bits; the exponent range is not reached.)
RoundNearest(n, d) ==
    IF n = 0 THEN Ratio(0, 1)
    ELSE LET sign == IF (n < 0) = (d < 0) THEN 1 ELSE -1
             f == Normalized(Abs(n), Abs(d), 0)
             m0 == f.n \div f.d
             twice == 2 * (f.n % f.d)
             m == IF twice > f.d \/ (twice = f.d /\ m0 % 2 = 1) THEN m0 + 1 ELSE m0
         IN IF f.e >= 0 THEN Ratio(sign * m * Pow2(f.e), 1) ELSE Dyadic(sign * m, 0 - f.e)

\* x + y of two f64 values (their denominators are powers of two).
FAdd(x, y) ==
    LET den == IF x.den >= y.den THEN x.den ELSE y.den
    IN RoundNearest(x.num * (den \div x.den) + y.num * (den \div y.den), den)

RECURSIVE TotalWeight(_, _, _)
\* The first loop of drop_zeros_and_normalize: total_weight += w where v != 0.0.
\* With count_zeros the faulty loop that adds every weight.
TotalWeight(ws, vs, count_zeros) ==
    IF ws = <<>> THEN Ratio(0, 1)
    ELSE LET n == Len(ws)
             before == TotalWeight(SubSeq(ws, 1, n - 1), SubSeq(vs, 1, n - 1), count_zeros)
         IN IF vs[n] # 0 \/ count_zeros THEN FAdd(before, Ratio(ws[n], 1)) ELSE before

RECURSIVE WeightedSum(_, _, _)
\* The second loop: normalized = w / total_weight; weighted_sum += normalized * v.
WeightedSum(ws, vs, total_weight) ==
    IF ws = <<>> THEN Ratio(0, 1)
    ELSE LET n == Len(ws)
             before == WeightedSum(SubSeq(ws, 1, n - 1), SubSeq(vs, 1, n - 1), total_weight)
             normalized == RoundNearest(ws[n] * total_weight.den, total_weight.num)
         IN FAdd(before, RoundNearest(normalized.num * vs[n], normalized.den))

\* A faulty drop_zeros_and_normalize that divides by the sum of all the weights.
drop_zeros_and_normalize_all(ws, vs) ==
    LET total_weight == TotalWeight(ws, vs, TRUE)
    IN IF total_weight.num = 0 THEN NaN ELSE WeightedSum(ws, vs, total_weight)

\* drop_zeros_and_normalize as the f64 operations compute it, one rounding per
\* operation, for positive weights and whole values.  (drop_zeros_and_normalize
\* above is its value in real arithmetic, which the engine's comparisons use.)
drop_zeros_and_normalize_f64(ws, vs) ==
    LET total_weight == TotalWeight(ws, vs, FALSE)
    IN IF total_weight.num = 0 THEN NaN ELSE WeightedSum(ws, vs, total_weight)

\* The f64 comparison x < y: false whenever an operand is NaN.
ScoreLess(x, y) == /\ ~x.nan
                   /\ ~y.nan
                   /\ x.num * y.den < y.num * x.den

RECURSIVE CritFrom_remaining(_, _, _)
\* A faulty loop that records for each gate the number of gates from it to the end.
CritFrom_remaining(gates, qubits, d) ==
    IF gates = <<>> THEN <<>>
    ELSE <<<<gates[1].id, Len(gates)>>>> \o CritFrom_remaining(Tail(gates), qubits, d)

RECURSIVE CritFrom(_, _, _)
\* build_criticality_table: the loop over the gates; d is the largest depth recorded
\* for any qubit of the circuit (c.qubits, not the gate's qubits), and d + 1 is then
\* recorded for every qubit of the circuit.
CritFrom(gates, qubits, d) ==
    IF gates = <<>> THEN <<>>
    ELSE LET nd == (IF qubits = {} THEN 0 ELSE d) + 1
         IN <<<<gates[1].id, nd>>>> \o CritFrom(Tail(gates), qubits, IF qubits = {} THEN 0 ELSE nd)

build_criticality_table(c) ==
    LET entries == CritFrom(c.gates, c.qubits, 0)
    IN [id \in {e[1] : e \in Range(entries)} |->
          LET last == CHOOSE i \in 1..Len(entries) :
                        /\ entries[i][1] = id
                        /\ \A j \in 1..Len(entries) : entries[j][1] = id => j <= i
          IN entries[last][2]]

\* ------------------------------------------------------------ step engine
\* The assertion at the entry of Step::max_step.
max_step_assert(step) == step.implemented_gates = {}

\* The step with one more implemented gate.
WithGate(step, gate, implementation) ==
    IF implementation = None THEN step
    ELSE [step EXCEPT !.implemented_gates =
            @ \cup {[gate |-> gate, implementation |-> Unwrap(implementation)]}]

RECURSIVE MaxStepPanics(_, _, _)
\* A call of the plug-in's implement_gate inside max_step panics.
MaxStepPanics(step, executable, arch) ==
    /\ executable # <<>>
    /\ \/ implement_gate_panics(step, arch, executable[1])
       \/ \E implementation \in implement_gate_first(step, arch, executable[1]) :
             MaxStepPanics(WithGate(step, executable[1], implementation),
                           Tail(executable), arch)

RECURSIVE MaxStepFrom(_, _, _)
MaxStepFrom(step, executable, arch) ==
    IF executable = <<>> THEN {step}
    ELSE UNION {MaxStepFrom(WithGate(step, executable[1], implementation),
                            Tail(executable), arch) :
                  implementation \in implement_gate_first(step, arch, executable[1])}

\* Step::max_step: every executable gate, in order, gets the first implementation
\* the plug-in offers given the gates already in the step.  The set holds one
\* step, or one per outcome where the plug-in's answer depends on a hash map's
\* iteration order.
max_step(step, executable, arch) == MaxStepFrom(step, executable, arch)

\* The criticality a step realises: the sum of crit_table over its gates.
TotalCriticality(step, crit_table) ==
    LET ids == SortedSeq({g.id : g \in StepGates(step)})
    IN SeqSum([i \in 1..Len(ids) |-> crit_table[ids[i]]])

\* Step::max_step_all_orders: the steps max_step builds from the orderings of the
\* executable gates that realise the largest total criticality, among those the
\* most gates, among those the lowest step cost.
max_step_all_orders(step, executable, arch, crit_table) ==
    LET all == UNION {max_step(step, p, arch) : p \in Perms(executable)}
        Better(a, b) ==
            LET ca == TotalCriticality(a, crit_table)
                cb == TotalCriticality(b, crit_table)
                na == Cardinality(a.implemented_gates)
                nb == Cardinality(b.implemented_gates)
            IN \/ ca > cb
               \/ ca = cb /\ na > nb
               \/ ca = cb /\ na = nb /\ step_cost(a, arch) < step_cost(b, arch)
    IN {a \in all : \A b \in all : ~Better(b, a)}

\* The steps the engine may build from step for the executable gates, by the mode
\* the plug-in asks for.
Maximize(step, executable, arch, crit_table) ==
    IF explore_routing_orders(arch)
    THEN max_step_all_orders(step, executable, arch, crit_table)
    ELSE max_step(step, executable, arch)
MaximizePanics(step, executable, arch) ==
    IF explore_routing_orders(arch)
    THEN \E p \in Perms(executable) : MaxStepPanics(step, p, arch)
    ELSE MaxStepPanics(step, executable, arch)

\* The score find_best_next_step gives a candidate step.  The f64 arithmetic of
\* drop_zeros_and_normalize is carried out on exact rationals.
StepScore(step, trans, executable, arch, crit_table) ==
    drop_zeros_and_normalize(
        <<ALPHA, BETA, GAMMA, DELTA>>,
        <<step_cost(step, arch),
          TransCost(trans),
          heuristic(arch, circuit_from_gates(executable), step.map),
          0 - TotalCriticality(step, crit_table)>>)

\* The candidates one transition contributes to find_best_next_step.
Candidates(trans, c, arch, last_step, crit_table) ==
    LET executable == get_front_layer(c)
    IN {[step |-> st, trans |-> trans,
         cost |-> StepScore(st, trans, executable, arch, crit_table)] :
           st \in Maximize(TransApply(trans, last_step), executable, arch, crit_table)}

\* A faulty match on best that never replaces the first candidate.
KeepBest_first(b, cand) == IF b = None THEN Some(cand) ELSE b

\* A faulty match on best that keeps the old step and takes the new transition.
KeepBest_mixed(b, cand) ==
    IF b = None THEN Some(cand)
    ELSE IF ScoreLess(cand.cost, Unwrap(b).cost) THEN Some(cand)
    ELSE Some([Unwrap(b) EXCEPT !.trans = cand.trans])

\* The match on best in the loop of find_best_next_step: the first candidate is
\* taken, a later one only when its score is strictly smaller.
KeepBest(best, cand) ==
    IF best = None THEN Some(cand)
    ELSE IF ScoreLess(cand.cost, Unwrap(best).cost) THEN Some(cand)
    ELSE best

RECURSIVE FindBestFrom(_, _, _, _, _, _)
FindBestFrom(ts, best, c, arch, last_step, crit_table) ==
    IF ts = <<>> THEN {best}
    ELSE UNION {FindBestFrom(Tail(ts), KeepBest(best, cand), c, arch, last_step, crit_table) :
                  cand \in Candidates(ts[1], c, arch, last_step, crit_table)}

\* A faulty find_best_next_step that stays on the last step's map when the
\* plug-in offers no transition.
find_best_next_step_stay(c, arch, last_step, crit_table) ==
    LET r == UNION {FindBestFrom(ts, None, c, arch, last_step, crit_table) :
                      ts \in transitions(arch, last_step)}
    IN IF r = {None}
       THEN {Some([step |-> EmptyStep(last_step.map), trans |-> IdTransition, cost |-> NaN])}
       ELSE r

\* find_best_next_step: the values it can return (one, unless the all-orders mode
\* leaves a choice), None when the plug-in offers no transition.
find_best_next_step(c, arch, last_step, crit_table) ==
    UNION {FindBestFrom(ts, None, c, arch, last_step, crit_table) :
             ts \in transitions(arch, last_step)}

\* find_best_next_step panics when max_step's assertion fails, when implement_gate
\* panics or when the mapping heuristic panics on a candidate's map.
find_best_next_step_panics(c, arch, last_step) ==
    LET executable == get_front_layer(c)
    IN \E ts \in transitions(arch, last_step) : \E i \in 1..Len(ts) :
          LET next_step == TransApply(ts[i], last_step)
          IN \/ ~max_step_assert(next_step)
             \/ MaximizePanics(next_step, executable, arch)
             \/ heuristic_panics(arch, circuit_from_gates(executable), next_step.map)

\* The candidates of a run of the loop of find_best_next_step in which the i-th
\* transition yields the values vals[i] = <<s_cost, t_cost, m_cost, -criticality>>;
\* the i-th candidate's step and transition are named by i.
ScoredCandidates(vals) ==
    [i \in 1..Len(vals) |->
        [step |-> i, trans |-> i,
         cost |-> drop_zeros_and_normalize(<<ALPHA, BETA, GAMMA, DELTA>>, vals[i])]]

RECURSIVE SelectFrom(_, _)
\* The loop of find_best_next_step over the scored candidates.
SelectFrom(cands, best) ==
    IF cands = <<>> THEN best
    ELSE SelectFrom(Tail(cands), KeepBest(best, cands[1]))

\* ------------------------------------------------------ simulated_anneal
\* A temperature is the fraction <<n, d>>; x > y and x * rate.
Hotter(x, y) == x[1] * y[2] > y[1] * x[2]
Cool(x, rate) == <<x[1] * rate[1], x[2] * rate[2]>>

\* rand < exp(-delta_curr / temp): exp is at least 1 when delta_curr <= 0 and rand
\* is below 1; otherwise either outcome is possible.
Accepts(delta_curr) == IF delta_curr <= 0 THEN {TRUE} ELSE BOOLEAN

\* A faulty update that lets best follow every generated neighbor.
NextBest_last(b, next, cost_function) == next

\* The update of best: next replaces it when delta_best < 0.0.
NextBest(b, next, cost_function) ==
    IF cost_function[next] - cost_function[b] < 0 THEN next ELSE b

\* The update of current: next on a new best or an accepted move.
NextCurrent(cur, b, next, accept, cost_function) ==
    IF cost_function[next] - cost_function[b] < 0 THEN next
    ELSE IF accept THEN next ELSE cur

\* ---------------------------------------------------------- mapping search
\* build_interaction_graph: the vertices are the circuit's qubits, the edges the
\* pairs of qubits that share a gate.
build_interaction_graph(c) ==
    [nodes |-> c.qubits,
     edges |-> {<<c.gates[i].qubits[1], c.gates[i].qubits[2]>> :
                  i \in {j \in 1..Len(c.gates) : Len(c.gates[j].qubits) = 2}}]

\* vf2::subgraph_isomorphisms: the injections of the interaction graph into the
\* architecture graph that send every edge to an edge.
subgraph_isomorphisms(c, arch) ==
    LET ig == build_interaction_graph(c)
    IN {m \in [ig.nodes -> Nodes(arch)] :
          /\ Injective(m)
          /\ \A e \in ig.edges : contains_edge(arch, m[e[1]], m[e[2]])}

\* isomorphism_map: the first embedding the search finds, or None when there is
\* none.  Which embedding comes first is left to the matcher.
isomorphism_map(c, arch) ==
    IF subgraph_isomorphisms(c, arch) = {} THEN {None}
    ELSE {Some(m) : m \in subgraph_isomorphisms(c, arch)}

Min(a, b) == IF a < b THEN a ELSE b

\* random_map: choose_multiple draws min(|qubits|, |locations|) distinct indices
\* of the location vector; the elements there are zipped with the qubits in the
\* hash set's iteration order.
random_map(c, arch) ==
    LET locs == locations(arch)
        k == Min(Cardinality(c.qubits), Len(locs))
    IN UNION {{[q \in D |-> locs[f[q]]] : f \in {g \in [D -> 1..Len(locs)] : Injective(g)}} :
                D \in {E \in SUBSET c.qubits : Cardinality(E) = k}}

\* random_neighbor: swap the locations of two mapped qubits, or move one qubit to
\* a location no qubit is mapped to.
random_neighbor(map, arch) ==
    {[map EXCEPT ![p[1]] = map[p[2]], ![p[2]] = map[p[1]]] :
        p \in {x \in (DOMAIN map) \X (DOMAIN map) : x[1] # x[2]}}
    \cup {[map EXCEPT ![q] = l] :
        q \in DOMAIN map, l \in Range(locations(arch)) \ {map[x] : x \in DOMAIN map}}

\* std::sync::mpsc::Sender::send on the unbounded channel: the message is queued
\* when the receiver is alive, and Err is returned (the queue untouched) when the
\* receiver was dropped.  It never waits for the receiver.
ChannelSend(channel, receiver_alive, msg) ==
    IF receiver_alive THEN [chan |-> Append(channel, msg), ok |-> TRUE]
    ELSE [chan |-> channel, ok |-> FALSE]

\* A faulty worker that unwraps the Result of the send.
IgnoreSendResult_unwrap(ok) == IF ok THEN "sent" ELSE "panicked"

\* `let _ = tx.send(result)`: the worker drops the Result of the send, so an Err
\* (receiver gone) ends the thread like an Ok does.
IgnoreSendResult(ok) == IF ok THEN "sent" ELSE "send_err"

\* The match on rx.recv_timeout(timeout) in isomorphism_map_with_timeout:
\* Ok(res) => res, Err(_) => None.
RecvTimeoutResult(channel) == IF channel # <<>> THEN channel[1] ELSE None

\* The circuits and architectures the entry points are called with.
IlqCircuits ==
    LET gs == {<<"CX", <<0, 1>>>>, <<"CX", <<1, 0>>>>, <<"T", <<0>>>>, <<"T", <<1>>>>}
    IN {circuit_from_gates([i \in 1..Len(ss) |->
            [gate_type |-> ss[i][1], qubits |-> ss[i][2], id |-> i - 1]]) :
          ss \in UNION {[1..n -> gs] : n \in 1..MaxGates}}

\* A 3 x 2 single-layer ILQ device: algorithmic qubits at 0 and 5, one magic state at 2.
IlqDevice == ILQArch(1, 3, 2, <<0, 5>>, <<2>>)

Calls ==
    {[entry |-> e, circ |-> c, arch |-> NisqArchitecture(n)] :
        e \in {"solve", "sabre_solve"}, c \in InputCircuits, n \in 2..MaxLoc}
    \cup {[entry |-> "solve", circ |-> c, arch |-> IlqDevice] : c \in IlqCircuits}

\* run-ilq with the square_sparse layout: circuits of CX q0 q1 gates and the device
\* square_sparse_layout builds for the circuit's qubit count with stack depth 1.
SparseCircuits ==
    {circuit_from_gates([i \in 1..n |->
        [gate_type |-> "CX", qubits |-> <<0, 1>>, id |-> i - 1]]) : n \in 1..MaxGates}
SparseCalls ==
    {[entry |-> "solve", circ |-> c,
      arch |-> square_sparse_layout(Cardinality(c.qubits), 1)] : c \in SparseCircuits}

\* raa_solve: circuits of CX gates on four atoms and the square grid of side
\* MaxSide, the grid run-raa builds for a circuit of two to four gates.
RaaPairs == {<<0, 1>>, <<2, 3>>, <<1, 2>>}
RaaCircuits ==
    {extract_cnots(ps) : ps \in UNION {[1..n -> RaaPairs] : n \in 1..MaxGates}}
RaaCalls ==
    {[entry |-> "raa_solve", circ |-> c, arch |-> RaaArchitecture(MaxSide, MaxSide)] :
        c \in RaaCircuits}

\* solve and sabre_solve called with the NISQ callbacks and a transitions closure
\* that returns no transition.
DegenerateCalls ==
    {[entry |-> e, circ |-> c,
      arch |-> [NisqArchitecture(n) EXCEPT !.kind = "no_transitions"]] :
        e \in {"solve", "sabre_solve"}, c \in InputCircuits, n \in 2..MaxLoc}

\* Scenario S1: nisq_solve on the path graph over 3 nodes with the circuit
\* CX q0,q1; CX q1,q2; CX q0,q2.
S1Call ==
    [entry |-> "solve",
     circ |-> extract_cnots(<<<<0, 1>>, <<1, 2>>, <<0, 2>>>>),
     arch |-> NisqArchitecture(3)]

\* The values find_best_next_step computes for a candidate: costs from 0 up and
\* the negated total criticality.
ScoreVals ==
    {<<s, t, m, 0 - k>> : s \in 0..1, t \in 0..1, m \in 0..1, k \in 0..1}

\* The weights and values drop_zeros_and_normalize is called on: find_best_next_step
\* passes four pairs with weights 1.0, costs from 0 up and a criticality below 0.
Weights == 1..2
Values == {-3, 0, 1, 7}

\* The circuits the utilities are called on: the gate lists extract_cnots builds
\* from CX gates over the qubits 0..MaxQubits.
UtilCircuits ==
    LET pairs == {<<a, b>> : a, b \in 0..MaxQubits} \cap {p \in (0..MaxQubits) \X (0..MaxQubits) : p[1] < p[2]}
    IN {extract_cnots(ps) : ps \in UNION {[1..n -> pairs] : n \in 1..MaxUtilGates}}

\* The graphs the utilities are called on, and the location vectors passed to them.
UtilArchs == {NisqArchitecture(n) : n \in 2..(MaxLoc + 1)} \cup {IlqDevice}
LocSeqs(arch) == UNION {[1..n -> Nodes(arch)] : n \in 0..MaxVec}

VARIABLES entry, circ, arch, args, pc, panic_at, worker, chan, rx_alive, elapsed,
          isom_map, current, best, iter, sa_map, map, pass,
          steps, trans_taken, cost, current_circ, result, closure, ret, worker_results,
          temp, generated

vars == <<entry, circ, arch, args, pc, panic_at, worker, chan, rx_alive, elapsed,
          isom_map, current, best, iter, sa_map, map, pass,
          steps, trans_taken, cost, current_circ, result, closure, ret, worker_results,
          temp, generated>>

input_vars == <<entry, circ, arch, args>>
util_vars == <<closure, ret>>
join_vars == <<worker_results>>
temp_vars == <<temp, generated>>
isom_vars == <<worker, chan, rx_alive, elapsed, isom_map>>
anneal_vars == <<current, best, iter, sa_map>>
route_vars == <<steps, trans_taken, cost, current_circ>>

\* solve / sabre_solve: let crit_table = &build_criticality_table(c)
crit_table == build_criticality_table(circ)

\* A faulty sabre_solve that routes c in every pass.
route_circ_forward == circ

\* The circuit the current routing run is given: sabre_solve alternates c and
\* c.reversed() for SABRE_ITERATIONS rounds and then routes c once more.
route_circ ==
    IF entry = "sabre_solve" /\ pass < 2 * SABRE_ITERATIONS /\ pass % 2 = 1
    THEN reversed(circ) ELSE circ

\* No entry point has run yet.
InitIdle ==
    /\ closure = None
    /\ temp = None
    /\ generated = {}
    /\ ret = None
    /\ worker_results = <<>>
    /\ pc = "start"
    /\ panic_at = "none"
    /\ worker = "idle"
    /\ chan = <<>>
    /\ rx_alive = FALSE
    /\ elapsed = FALSE
    /\ isom_map = None
    /\ current = None
    /\ best = None
    /\ iter = 0
    /\ sa_map = None
    /\ map = None
    /\ pass = 0
    /\ steps = <<>>
    /\ trans_taken = <<>>
    /\ cost = 0
    /\ current_circ = circuit_from_gates(<<>>)
    /\ result = None

InitWith(calls) ==
    /\ \E call \in calls :
          /\ entry = call.entry
          /\ circ = call.circ
          /\ arch = call.arch
          /\ args = None
    /\ InitIdle

Init == InitWith(Calls)

\* A panic unwinds the calling thread: nothing is returned.
Panic(at) ==
    /\ pc' = "panic"
    /\ panic_at' = at

\* solve: isomorphism_map_with_timeout creates the channel, spawns the worker and
\* blocks in rx.recv_timeout.
SpawnIsom ==
    /\ pc = "start"
    /\ entry = "solve"
    /\ pc' = "recv"
    /\ worker' = "running"
    /\ rx_alive' = TRUE
    /\ UNCHANGED <<input_vars, join_vars, temp_vars, util_vars, panic_at, chan, elapsed, isom_map, anneal_vars, map, pass,
                   route_vars, result>>

\* The worker thread: let result = isomorphism_map(..); let _ = tx.send(result);
\* The result moves into the channel, or is dropped with the Err the send returns;
\* the thread ends after the send either way.
WorkerSend ==
    /\ worker = "running"
    /\ \E res \in isomorphism_map(circ, arch) :
          LET sent == ChannelSend(chan, rx_alive, res)
          IN /\ chan' = sent.chan
             /\ worker' = IgnoreSendResult(sent.ok)
    /\ UNCHANGED <<input_vars, join_vars, temp_vars, util_vars, pc, panic_at, rx_alive, elapsed, isom_map, anneal_vars, map,
                   pass, route_vars, result>>

\* rx.recv_timeout returns Ok(res): a message was queued before the timeout.
RecvOk ==
    /\ pc = "recv"
    /\ chan # <<>>
    /\ isom_map' = RecvTimeoutResult(chan)
    /\ chan' = Tail(chan)
    /\ pc' = "recv_ret"
    /\ UNCHANGED <<input_vars, join_vars, temp_vars, util_vars, panic_at, worker, rx_alive, elapsed, anneal_vars, map, pass,
                   route_vars, result>>

\* rx.recv_timeout returns Err(Timeout): ISOM_SEARCH_TIMEOUT passed with the queue
\* empty, and the match yields None.
RecvTimeout ==
    /\ pc = "recv"
    /\ chan = <<>>
    /\ elapsed' = TRUE
    /\ isom_map' = RecvTimeoutResult(chan)
    /\ pc' = "recv_ret"
    /\ UNCHANGED <<input_vars, join_vars, temp_vars, util_vars, panic_at, worker, chan, rx_alive, anneal_vars, map, pass,
                   route_vars, result>>

\* isomorphism_map_with_timeout returns: rx goes out of scope, and whatever the
\* worker queued between the timeout and this point is dropped with it.
RecvReturn ==
    /\ pc = "recv_ret"
    /\ rx_alive' = FALSE
    /\ chan' = <<>>
    /\ pc' = "isom_done"
    /\ UNCHANGED <<input_vars, join_vars, temp_vars, util_vars, panic_at, worker, elapsed, isom_map, anneal_vars, map, pass,
                   route_vars, result>>

\* sabre_solve: let isom_map = isomorphism_map(c, arch), called on the main thread.
IsomCall ==
    /\ pc = "start"
    /\ entry = "sabre_solve"
    /\ pc' = "isom_call"
    /\ UNCHANGED <<input_vars, join_vars, temp_vars, util_vars, panic_at, isom_vars, anneal_vars, map, pass, route_vars, result>>

\* ISOM_SEARCH_TIMEOUT passes while the main thread is inside isomorphism_map.
ClockElapses ==
    /\ pc = "isom_call"
    /\ ~elapsed
    /\ elapsed' = TRUE
    /\ UNCHANGED <<input_vars, join_vars, temp_vars, util_vars, pc, panic_at, worker, chan, rx_alive, isom_map, anneal_vars,
                   map, pass, route_vars, result>>

\* The search called by sabre_solve returns.
IsomReturn ==
    /\ pc = "isom_call"
    /\ isom_map' \in isomorphism_map(circ, arch)
    /\ pc' = "isom_done"
    /\ UNCHANGED <<input_vars, join_vars, temp_vars, util_vars, panic_at, worker, chan, rx_alive, elapsed, anneal_vars, map,
                   pass, route_vars, result>>

\* let map_h = |m| heuristic(arch, c, m);  isom_cost = isom_map.map(|x| map_h(&x))
map_h(m) == heuristic(arch, circ, m)
isom_cost == IF isom_map = None THEN None ELSE Some(map_h(Unwrap(isom_map)))

\* The arm `Some(c) if c == 0.0 => None` of the match that sets sa_map.
SkipsAnnealing == isom_cost = Some(0)

\* A faulty choice that always takes the isomorphism map.
ChooseMap_isom(im, sm) == im

\* The match that chooses the initial map:
\*   (Some(i_c), Some(s_c)) if i_c < s_c => isom_map.unwrap(),  _ => sa_map.unwrap()
\* The result is None when the arm taken unwraps a None.
ChooseMap(im, sm) ==
    IF /\ im # None
       /\ sm # None
       /\ heuristic(arch, circ, Unwrap(im)) < heuristic(arch, circ, Unwrap(sm))
    THEN im
    ELSE sm

\* isom_cost is Some(0.0): sa_map and sa_cost are None, and the match on
\* (isom_cost, sa_cost) goes on to choose the map.
AnnealSkipped ==
    /\ pc = "isom_done"
    /\ isom_map # None
    /\ ~heuristic_panics(arch, circ, Unwrap(isom_map))
    /\ SkipsAnnealing
    /\ sa_map' = None
    /\ IF ChooseMap(isom_map, None) = None
       THEN Panic("sa_map.unwrap") /\ UNCHANGED <<map>>
       ELSE /\ map' = ChooseMap(isom_map, None)
            /\ pc' = "route"
            /\ UNCHANGED <<panic_at>>
    /\ UNCHANGED <<input_vars, join_vars, temp_vars, util_vars, isom_vars, current, best, iter, pass, route_vars, result>>

\* Any other isom_cost: random_map gives the start of sim_anneal_mapping_search,
\* and simulated_anneal evaluates the cost function on it.
AnnealStart ==
    /\ pc = "isom_done"
    /\ IF isom_map # None /\ heuristic_panics(arch, circ, Unwrap(isom_map))
       THEN Panic("mapping_heuristic") /\ UNCHANGED <<current, best>>
       ELSE /\ ~SkipsAnnealing
            /\ \E start \in random_map(circ, arch) :
                  IF heuristic_panics(arch, circ, start)
                  THEN Panic("mapping_heuristic") /\ UNCHANGED <<current, best>>
                  ELSE /\ current' = Some(start)
                       /\ best' = Some(start)
                       /\ pc' = "anneal"
                       /\ UNCHANGED <<panic_at>>
    /\ UNCHANGED <<input_vars, join_vars, temp_vars, util_vars, isom_vars, iter, sa_map, map, pass, route_vars, result>>

\* One iteration of the loop of simulated_anneal.  The loop condition
\* temp > term_temp is counted by iter; rand < exp(-delta_curr / temp) holds for
\* every rand in [0, 1) when delta_curr <= 0 and is left open otherwise.
AnnealIter ==
    /\ pc = "anneal"
    /\ iter < MaxAnneal
    /\ IF random_neighbor(Unwrap(current), arch) = {}
       THEN Panic("moves.choose.unwrap") /\ UNCHANGED <<current, best, iter>>
       ELSE \E next \in random_neighbor(Unwrap(current), arch) :
              IF heuristic_panics(arch, circ, next)
              THEN Panic("mapping_heuristic") /\ UNCHANGED <<current, best, iter>>
              ELSE LET next_cost == map_h(next)
                       delta_curr == next_cost - map_h(Unwrap(current))
                       delta_best == next_cost - map_h(Unwrap(best))
                   IN /\ IF delta_best < 0
                         THEN best' = Some(next) /\ current' = Some(next)
                         ELSE /\ best' = best
                              /\ \E accept \in (IF delta_curr <= 0 THEN {TRUE} ELSE BOOLEAN) :
                                    current' = IF accept THEN Some(next) ELSE current
                      /\ iter' = iter + 1
                      /\ UNCHANGED <<pc, panic_at>>
    /\ UNCHANGED <<input_vars, join_vars, temp_vars, util_vars, isom_vars, sa_map, map, pass, route_vars, result>>

\* simulated_anneal returns best; the initial map is chosen and handed to route.
AnnealDone ==
    /\ pc = "anneal"
    /\ iter = MaxAnneal
    /\ sa_map' = best
    /\ map' = ChooseMap(isom_map, best)
    /\ current' = None
    /\ best' = None
    /\ iter' = 0
    /\ pc' = "route"
    /\ UNCHANGED <<input_vars, join_vars, temp_vars, util_vars, panic_at, isom_vars, pass, route_vars, result>>

\* route, up to the loop: step_0 gets the map and no gates, cost starts at
\* step_cost(&step_0), step_0 is maximized over the front layer of the circuit,
\* its gates are removed from current_circ, and it is pushed.
RouteInit ==
    /\ pc = "route"
    /\ LET step_0 == EmptyStep(Unwrap(map))
           executable == get_front_layer(route_circ)
       IN IF MaximizePanics(step_0, executable, arch)
          THEN Panic("implement_gate") /\ UNCHANGED route_vars
          ELSE \E s0 \in Maximize(step_0, executable, arch, crit_table) :
                 /\ cost' = step_cost(step_0, arch)
                 /\ current_circ' = remove_gates(route_circ, StepGates(s0))
                 /\ steps' = <<s0>>
                 /\ trans_taken' = <<>>
                 /\ pc' = "loop"
                 /\ UNCHANGED <<panic_at>>
    /\ UNCHANGED <<input_vars, join_vars, temp_vars, util_vars, isom_vars, anneal_vars, map, pass, result>>

\* A faulty push that records no tag for a transition whose tag is the identity.
PushTransition_skip_id(taken, trans) ==
    IF TransRepr(trans) = TransRepr(IdTransition) THEN taken ELSE Append(taken, TransRepr(trans))

\* trans_taken.push(trans.repr()) in the loop of route.
PushTransition(taken, trans) == Append(taken, TransRepr(trans))

\* One iteration of the loop of route.
RouteIter ==
    /\ pc = "loop"
    /\ Len(current_circ.gates) > 0
    /\ Len(steps) < MaxSteps
    /\ IF find_best_next_step_panics(current_circ, arch, steps[Len(steps)])
       THEN Panic("find_best_next_step") /\ UNCHANGED route_vars
       ELSE \E b \in find_best_next_step(current_circ, arch, steps[Len(steps)], crit_table) :
              IF b = None
              THEN Panic("No valid next step found") /\ UNCHANGED route_vars
              ELSE LET s == Unwrap(b).step
                       trans == Unwrap(b).trans
                   IN /\ current_circ' = remove_gates(current_circ, StepGates(s))
                      /\ cost' = cost + step_cost(s, arch) + TransCost(trans)
                      /\ steps' = Append(steps, s)
                      /\ trans_taken' = PushTransition(trans_taken, trans)
                      /\ UNCHANGED <<pc, panic_at>>
    /\ UNCHANGED <<input_vars, join_vars, temp_vars, util_vars, isom_vars, anneal_vars, map, pass, result>>

\* route returns CompilerResult { steps, transitions, cost }.  solve returns it;
\* sabre_solve takes the last step's map for the next pass and returns the result
\* of the pass after the SABRE_ITERATIONS rounds.
RouteReturn ==
    /\ pc = "loop"
    /\ Len(current_circ.gates) = 0
    /\ IF entry = "sabre_solve" /\ pass < 2 * SABRE_ITERATIONS
       THEN /\ map' = Some(steps[Len(steps)].map)
            /\ pass' = pass + 1
            /\ pc' = "route"
            /\ UNCHANGED result
       ELSE /\ result' = Some([steps |-> steps, transitions |-> trans_taken, cost |-> cost])
            /\ pc' = "done"
            /\ UNCHANGED <<map, pass>>
    /\ UNCHANGED <<input_vars, join_vars, temp_vars, util_vars, panic_at, isom_vars, anneal_vars, route_vars>>

\* solve without a mapping heuristic (raa_solve): let map = random_map(c, arch),
\* and route is called with it.
SolveWithoutHeuristic ==
    /\ pc = "start"
    /\ entry = "raa_solve"
    /\ \E m \in random_map(circ, arch) : map' = Some(m)
    /\ pc' = "route"
    /\ UNCHANGED <<input_vars, join_vars, temp_vars, util_vars, panic_at, isom_vars, anneal_vars, pass, route_vars, result>>

Next ==
    \/ SpawnIsom
    \/ WorkerSend
    \/ RecvOk
    \/ RecvTimeout
    \/ RecvReturn
    \/ IsomCall
    \/ ClockElapses
    \/ IsomReturn
    \/ AnnealSkipped
    \/ AnnealStart
    \/ AnnealIter
    \/ AnnealDone
    \/ RouteInit
    \/ RouteIter
    \/ RouteReturn

Spec == Init /\ [][Next]_vars

\* ilq_solve on the square-sparse device.
InitSparse == InitWith(SparseCalls)
NextSparse ==
    \/ SpawnIsom
    \/ WorkerSend
    \/ RecvOk
    \/ RecvTimeout
    \/ RecvReturn
    \/ AnnealSkipped
    \/ AnnealStart
    \/ AnnealIter
    \/ AnnealDone
    \/ RouteInit
    \/ RouteIter
    \/ RouteReturn
SpecSparse == InitSparse /\ [][NextSparse]_vars

\* solve and sabre_solve with a plug-in that offers no transition.
InitDegenerate == InitWith(DegenerateCalls)
NextDegenerate ==
    \/ SpawnIsom
    \/ WorkerSend
    \/ RecvOk
    \/ RecvTimeout
    \/ RecvReturn
    \/ IsomCall
    \/ ClockElapses
    \/ IsomReturn
    \/ AnnealStart
    \/ AnnealIter
    \/ AnnealDone
    \/ RouteInit
    \/ RouteIter
    \/ RouteReturn
SpecDegenerate == InitDegenerate /\ [][NextDegenerate]_vars

\* A call of utils::shortest_path.
CallShortestPath ==
    /\ pc = "start"
    /\ entry = "shortest_path"
    /\ IF shortest_path_panics(arch, args.blocked)
       THEN Panic("loc_to_node[loc]") /\ UNCHANGED ret
       ELSE /\ \E r \in shortest_path(arch, args.starts, args.ends, args.blocked) : ret' = Some(r)
            /\ pc' = "done"
            /\ UNCHANGED panic_at
    /\ UNCHANGED <<input_vars, join_vars, temp_vars, isom_vars, anneal_vars, map, pass, route_vars, result, closure>>

\* A call of utils::all_paths: it returns the closure.
CallAllPaths ==
    /\ pc = "start"
    /\ entry = "all_paths"
    /\ IF all_paths_panics(arch, args.blocked)
       THEN Panic("loc_to_node[loc]") /\ UNCHANGED util_vars
       ELSE LET gone == Range(args.blocked)
                Kept(x) == x \in Nodes(arch) \ gone
            IN /\ closure' = Some(PathsInit(arch, gone, SelectSeq(args.starts, Kept)))
               /\ ret' = Some(<<>>)
               /\ pc' = "iter"
               /\ UNCHANGED panic_at
    /\ UNCHANGED <<input_vars, join_vars, temp_vars, isom_vars, anneal_vars, map, pass, route_vars, result>>

\* One call of next() on the iterator all_paths returned; ret collects the items.
\* The consumer stops at the first None.
IteratorNext ==
    /\ pc = "iter"
    /\ LET gone == Range(args.blocked)
           Kept(x) == x \in Nodes(arch) \ gone
           r == PathsNext(arch, gone, args.ends, SelectSeq(args.starts, Kept),
                          SelectSeq(args.ends, Kept), Unwrap(closure))
       IN /\ closure' = Some(r.st)
          /\ IF r.path = None
             THEN pc' = "done" /\ UNCHANGED ret
             ELSE ret' = Some(Append(Unwrap(ret), Unwrap(r.path))) /\ UNCHANGED pc
    /\ UNCHANGED <<input_vars, join_vars, temp_vars, panic_at, isom_vars, anneal_vars, map, pass, route_vars, result>>

\* A call of utils::build_criticality_table.
CallCriticality ==
    /\ pc = "start"
    /\ entry = "build_criticality_table"
    /\ ret' = Some(build_criticality_table(circ))
    /\ pc' = "done"
    /\ UNCHANGED <<input_vars, join_vars, temp_vars, panic_at, isom_vars, anneal_vars, map, pass, route_vars, result, closure>>

\* A call of Circuit::get_front_layer.
CallFrontLayer ==
    /\ pc = "start"
    /\ entry = "get_front_layer"
    /\ ret' = Some(get_front_layer(circ))
    /\ pc' = "done"
    /\ UNCHANGED <<input_vars, join_vars, temp_vars, panic_at, isom_vars, anneal_vars, map, pass, route_vars, result, closure>>

\* A call of find_best_next_step whose transitions yield the values args.vals.
CallFindBest ==
    /\ pc = "start"
    /\ entry = "find_best_next_step"
    /\ ret' = SelectFrom(ScoredCandidates(args.vals), None)
    /\ pc' = "done"
    /\ UNCHANGED <<input_vars, join_vars, temp_vars, panic_at, isom_vars, anneal_vars, map, pass, route_vars, result, closure>>

\* A call of utils::drop_zeros_and_normalize.
CallNormalize ==
    /\ pc = "start"
    /\ entry = "drop_zeros_and_normalize"
    /\ ret' = Some(drop_zeros_and_normalize_f64(args.ws, args.vs))
    /\ pc' = "done"
    /\ UNCHANGED <<input_vars, join_vars, temp_vars, panic_at, isom_vars, anneal_vars, map, pass, route_vars, result, closure>>

\* simulated_anneal called on its own, on the states 0..MaxState with any other
\* state as a neighbor, a cost table over them and temperatures whose products
\* are exact.
AnnealStates == 0..MaxState
AnnealCalls ==
    [start : AnnealStates,
     initial_temp : {<<1, 1>>, <<4, 1>>},
     term_temp : {<<1, 1>>, <<1, 2>>},
     cool_rate : {<<1, 2>>, <<3, 4>>},
     cost_function : [AnnealStates -> 0..MaxCost]]

\* simulated_anneal up to the loop.
SimAnnealStart ==
    /\ pc = "start"
    /\ entry = "simulated_anneal"
    /\ best' = Some(args.start)
    /\ current' = Some(args.start)
    /\ temp' = args.initial_temp
    /\ generated' = {args.start}
    /\ pc' = "anneal_loop"
    /\ UNCHANGED <<input_vars, join_vars, util_vars, panic_at, isom_vars, iter, sa_map, map, pass, route_vars, result>>

\* One iteration of while temp > term_temp.
SimAnnealIter ==
    /\ pc = "anneal_loop"
    /\ Hotter(temp, args.term_temp)
    /\ \E next \in AnnealStates \ {Unwrap(current)} :
          LET delta_curr == args.cost_function[next] - args.cost_function[Unwrap(current)]
          IN \E accept \in Accepts(delta_curr) :
                /\ best' = Some(NextBest(Unwrap(best), next, args.cost_function))
                /\ current' = Some(NextCurrent(Unwrap(current), Unwrap(best), next, accept, args.cost_function))
                /\ generated' = generated \cup {next}
    /\ temp' = Cool(temp, args.cool_rate)
    /\ iter' = iter + 1
    /\ UNCHANGED <<input_vars, join_vars, util_vars, pc, panic_at, isom_vars, sa_map, map, pass, route_vars, result>>

\* The loop has ended: return best.
SimAnnealReturn ==
    /\ pc = "anneal_loop"
    /\ ~Hotter(temp, args.term_temp)
    /\ ret' = best
    /\ pc' = "done"
    /\ UNCHANGED <<input_vars, join_vars, temp_vars, panic_at, isom_vars, anneal_vars, map, pass, route_vars, result, closure>>

InitAnneal ==
    /\ entry = "simulated_anneal"
    /\ circ = circuit_from_gates(<<>>)
    /\ arch = None
    /\ args \in AnnealCalls
    /\ InitIdle
NextAnneal ==
    \/ SimAnnealStart
    \/ SimAnnealIter
    \/ SimAnnealReturn
SpecAnneal == InitAnneal /\ [][NextAnneal]_vars

\* route called with the NISQ callbacks on a connected graph (a path, or the ring
\* over MaxLoc + 1 nodes) from any injective map of all the circuit's qubits.
RingArchitecture(n) ==
    [NisqArchitecture(n) EXCEPT !.edges = path_graph(n) \o <<<<n - 1, 0>>, <<0, n - 1>>>>]
RouteArchs == {NisqArchitecture(n) : n \in 3..(MaxLoc + 1)} \cup {RingArchitecture(MaxLoc + 1)}
RouteCall ==
    /\ pc = "start"
    /\ entry = "route"
    /\ map' = Some(args.map)
    /\ pc' = "route"
    /\ UNCHANGED <<input_vars, join_vars, temp_vars, util_vars, panic_at, isom_vars, anneal_vars, pass, route_vars, result>>

InitRoute ==
    /\ entry = "route"
    /\ arch \in RouteArchs
    /\ circ \in {c \in UtilCircuits : Len(c.gates) <= MaxGates /\ Cardinality(c.qubits) <= arch.n}
    /\ \E m \in {f \in [circ.qubits -> Nodes(arch)] : Injective(f)} : args = [map |-> m]
    /\ InitIdle
NextRoute ==
    \/ RouteCall
    \/ RouteInit
    \/ RouteIter
    \/ RouteReturn
SpecRoute == InitRoute /\ [][NextRoute]_vars

\* The utilities of utils.rs called on their own.
InitUtils ==
    /\ \/ /\ circ = circuit_from_gates(<<>>)
          /\ \E a \in UtilArchs :
                /\ arch = a
                /\ \E s \in LocSeqs(a) \ {<<>>}, e \in LocSeqs(a) \ {<<>>}, b \in LocSeqs(a) :
                      /\ entry \in {"shortest_path", "all_paths"}
                      /\ args = [starts |-> s, ends |-> e, blocked |-> b]
       \/ /\ entry \in {"build_criticality_table", "get_front_layer"}
          /\ circ \in UtilCircuits
          /\ arch = None
          /\ args = None
       \/ /\ entry = "drop_zeros_and_normalize"
          /\ circ = circuit_from_gates(<<>>)
          /\ arch = None
          /\ \E n \in 1..MaxPairs : \E ws \in [1..n -> Weights], vs \in [1..n -> Values] :
                args = [ws |-> ws, vs |-> vs]
       \/ /\ entry = "find_best_next_step"
          /\ circ = circuit_from_gates(<<>>)
          /\ arch = None
          /\ \E n \in 1..MaxCands : \E vals \in [1..n -> ScoreVals] : args = [vals |-> vals]
    /\ InitIdle
NextUtils ==
    \/ CallFrontLayer
    \/ CallFindBest
    \/ CallNormalize
    \/ CallCriticality
    \/ CallShortestPath
    \/ CallAllPaths
    \/ IteratorNext
SpecUtils == InitUtils /\ [][NextUtils]_vars

\* Scenario S1: nisq_solve on the path graph over 3 nodes.
InitS1 == InitWith({S1Call})
NextS1 ==
    \/ SpawnIsom
    \/ WorkerSend
    \/ RecvOk
    \/ RecvTimeout
    \/ RecvReturn
    \/ AnnealStart
    \/ AnnealIter
    \/ AnnealDone
    \/ RouteInit
    \/ RouteIter
    \/ RouteReturn
SpecS1 == InitS1 /\ [][NextS1]_vars

\* The compiler is run again on the same inputs: ret keeps the result of the first
\* run, and everything else starts afresh.  solve takes no seed, and random_map and
\* random_neighbor draw from rand::rng(), the thread's generator seeded by the
\* operating system.
SecondRun ==
    /\ pc = "done"
    /\ ret = None
    /\ IsSome(result)
    /\ ret' = result
    /\ pc' = "start"
    /\ worker' = "idle"
    /\ chan' = <<>>
    /\ rx_alive' = FALSE
    /\ elapsed' = FALSE
    /\ isom_map' = None
    /\ current' = None
    /\ best' = None
    /\ iter' = 0
    /\ sa_map' = None
    /\ map' = None
    /\ pass' = 0
    /\ steps' = <<>>
    /\ trans_taken' = <<>>
    /\ cost' = 0
    /\ current_circ' = circuit_from_gates(<<>>)
    /\ result' = None
    /\ UNCHANGED <<input_vars, join_vars, temp_vars, panic_at, closure>>

\* Two runs of nisq_solve, one after the other, on the inputs of scenario S1.
InitTwoRuns == InitWith({S1Call})
NextTwoRuns ==
    \/ SpawnIsom
    \/ WorkerSend
    \/ RecvOk
    \/ RecvTimeout
    \/ RecvReturn
    \/ AnnealStart
    \/ AnnealIter
    \/ AnnealDone
    \/ RouteInit
    \/ RouteIter
    \/ RouteReturn
    \/ SecondRun
SpecTwoRuns == InitTwoRuns /\ [][NextTwoRuns]_vars

\* A faulty selection that keeps the last of the results with the least cost.
MinCostResult_last(results) ==
    LET least == {i \in 1..Len(results) : \A j \in 1..Len(results) : results[i].cost <= results[j].cost}
    IN results[CHOOSE i \in least : \A j \in least : j <= i]

\* solve_joint_optimize_parallel: the result with the least total cost, the one of
\* the lowest worker index among equals.
MinCostResult(results) ==
    LET least == {i \in 1..Len(results) : \A j \in 1..Len(results) : results[i].cost <= results[j].cost}
    IN results[CHOOSE i \in least : \A j \in least : i <= j]

\* solve_joint_optimize_parallel: a worker has run the whole pipeline on its own
\* copies and hands back its result; the workers share nothing, so the run of the
\* next worker starts afresh.  worker_results holds the results by worker index.
WorkerFinish ==
    /\ pc = "done"
    /\ args # None
    /\ IsSome(result)
    /\ Len(worker_results) < args.parallel_searches
    /\ worker_results' = Append(worker_results, Unwrap(result))
    /\ pc' = IF Len(worker_results) + 1 < args.parallel_searches THEN "start" ELSE "join"
    /\ worker' = "idle"
    /\ chan' = <<>>
    /\ rx_alive' = FALSE
    /\ elapsed' = FALSE
    /\ isom_map' = None
    /\ current' = None
    /\ best' = None
    /\ iter' = 0
    /\ sa_map' = None
    /\ map' = None
    /\ pass' = 0
    /\ steps' = <<>>
    /\ trans_taken' = <<>>
    /\ cost' = 0
    /\ current_circ' = circuit_from_gates(<<>>)
    /\ result' = None
    /\ UNCHANGED <<input_vars, temp_vars, util_vars, panic_at>>

\* solve_joint_optimize_parallel: every worker has been joined; the best result is
\* returned.
JoinReturn ==
    /\ pc = "join"
    /\ result' = Some(MinCostResult(worker_results))
    /\ pc' = "joined"
    /\ UNCHANGED <<input_vars, join_vars, temp_vars, util_vars, panic_at, isom_vars, anneal_vars, map, pass, route_vars>>

\* nisq_solve_joint_optimize_parallel on the inputs of scenario S1.
InitParallel ==
    /\ entry = S1Call.entry
    /\ circ = S1Call.circ
    /\ arch = S1Call.arch
    /\ args \in {[parallel_searches |-> n] : n \in 1..MaxWorkers}
    /\ InitIdle
NextParallel ==
    \/ SpawnIsom
    \/ WorkerSend
    \/ RecvOk
    \/ RecvTimeout
    \/ RecvReturn
    \/ AnnealStart
    \/ AnnealIter
    \/ AnnealDone
    \/ RouteInit
    \/ RouteIter
    \/ RouteReturn
    \/ WorkerFinish
    \/ JoinReturn
SpecParallel == InitParallel /\ [][NextParallel]_vars

\* raa_solve on the square trap grid.
InitRaa == InitWith(RaaCalls)
NextRaa ==
    \/ SolveWithoutHeuristic
    \/ RouteInit
    \/ RouteIter
    \/ RouteReturn
SpecRaa == InitRaa /\ [][NextRaa]_vars

\* ------------------------------------------------------------------ claims
\* The transition a tag of CompilerResult.transitions stands for.
TransFromRepr(r) ==
    IF r[1] = "NisqTrans" THEN [edge |-> <<r[2], r[3]>>]
    ELSE IF r[1] = "RELOCATE" THEN [qubit |-> r[2], dst |-> r[3], cost |-> 0]
    ELSE IdTransition

\* The gate identifiers a step implements.
StepIds(step) == {g.id : g \in StepGates(step)}
CircIds(c) == {c.gates[i].id : i \in 1..Len(c.gates)}

\* A routing run has pushed step 0 and has not panicked.
Routing == pc \in {"loop", "done"}

\* C1 (coverage): in every iteration of route's loop and when route returns, each
\* gate identifier of the circuit being routed is either in exactly one pushed step
\* or still in the working circuit, never both, and the steps hold no other
\* identifier; a returned result holds every identifier exactly once.
C1_Coverage ==
    /\ Routing =>
          /\ \A i, j \in 1..Len(steps) : i # j => StepIds(steps[i]) \cap StepIds(steps[j]) = {}
          /\ \A i \in 1..Len(steps) :
                Cardinality(steps[i].implemented_gates) = Cardinality(StepIds(steps[i]))
          /\ (UNION {StepIds(steps[i]) : i \in 1..Len(steps)}) \cap CircIds(current_circ) = {}
          /\ (UNION {StepIds(steps[i]) : i \in 1..Len(steps)}) \cup CircIds(current_circ)
                = CircIds(route_circ)
          /\ Cardinality(CircIds(current_circ)) = Len(current_circ.gates)
    /\ result # None =>
          LET rs == Unwrap(result).steps
          IN /\ UNION {StepIds(rs[i]) : i \in 1..Len(rs)} = CircIds(circ)
             /\ \A id \in CircIds(circ) :
                   Cardinality({i \in 1..Len(rs) : id \in StepIds(rs[i])}) = 1

C1_Witness ==
    /\ result # None
    /\ Len(Unwrap(result).steps) >= 2
    /\ Len(circ.gates) >= 2
    /\ \E i \in 2..Len(Unwrap(result).steps) : StepIds(Unwrap(result).steps[i]) # {}

\* C3 (transition validity): in every pushed sequence of steps, the map of step i
\* is the map obtained by applying the transition tagged transitions[i-1] to step
\* i-1; and maximizing a step keeps its map and only adds implemented gates.
C3_TransitionValidity ==
    /\ Routing =>
          /\ Len(trans_taken) = Len(steps) - 1
          /\ \A i \in 2..Len(steps) :
                steps[i].map = TransApply(TransFromRepr(trans_taken[i - 1]), steps[i - 1]).map
          /\ LET last == steps[Len(steps)]
             IN \A ts \in transitions(arch, last) : \A k \in 1..Len(ts) :
                   LET applied == TransApply(ts[k], last)
                   IN \A st \in Maximize(applied, get_front_layer(current_circ), arch, crit_table) :
                         /\ st.map = applied.map
                         /\ applied.implemented_gates \subseteq st.implemented_gates
    /\ result # None =>
          LET r == Unwrap(result)
          IN \A i \in 2..Len(r.steps) :
                r.steps[i].map = TransApply(TransFromRepr(r.transitions[i - 1]), r.steps[i - 1]).map

C3_Witness ==
    /\ result # None
    /\ \E i \in 1..Len(Unwrap(result).transitions) :
          /\ Unwrap(result).transitions[i][1] = "NisqTrans"
          /\ Unwrap(result).transitions[i][2] # Unwrap(result).transitions[i][3]
          /\ Unwrap(result).steps[i + 1].map # Unwrap(result).steps[i].map

\* utils::swap_keys
swap_keys(m, loc1, loc2) ==
    [q \in DOMAIN m |->
        IF m[q] = loc1 THEN loc2 ELSE IF m[q] = loc2 THEN loc1 ELSE m[q]]

\* Swap::apply as the code generator emits it: the step is cloned and its map
\* replaced; the implemented gates of the clone are left as they are.
SwapApply(trans, step) == [step EXCEPT !.map = swap_keys(step.map, trans.u, trans.v)]

\* C4 (empty implemented set on entry to max_step): whenever route is about to
\* look for the next step, the step each transition's apply returns has an empty
\* implemented set, for the transitions of the plug-in in use and for the
\* generated Swap on any pair of locations.
C4_ApplyClearsGates ==
    (pc = "loop" /\ Len(current_circ.gates) > 0) =>
        LET last == steps[Len(steps)]
        IN /\ \A ts \in transitions(arch, last) :
                 \A k \in 1..Len(ts) : max_step_assert(TransApply(ts[k], last))
           /\ \A u, v \in Nodes(arch) : max_step_assert(SwapApply([u |-> u, v |-> v], last))

\* C5 (cost decomposition): the cost of a returned result is the sum of step_cost
\* over its steps, step 0 with its implemented gates included, plus the sum of the
\* costs of the transitions its tags stand for.
C5_CostDecomposition ==
    result # None =>
        LET r == Unwrap(result)
        IN r.cost = SeqSum([i \in 1..Len(r.steps) |-> step_cost(r.steps[i], arch)])
                    + SeqSum([i \in 1..Len(r.transitions) |->
                                TransCost(TransFromRepr(r.transitions[i]))])

\* C6 (zero-cost isomorphism): once the isomorphism search has returned a map of
\* heuristic cost 0, the compilation does not abort, no annealing result exists
\* and the map handed to the first routing run is the isomorphism map.
C6_ZeroCostIsomUsed ==
    (/\ pc \in {"anneal", "route", "loop", "done", "panic"}
     /\ isom_map # None
     /\ ~heuristic_panics(arch, circ, Unwrap(isom_map))
     /\ map_h(Unwrap(isom_map)) = 0)
    => /\ pc # "panic"
       /\ pc # "anneal"
       /\ sa_map = None
       /\ pass = 0 => map = isom_map

\* The step with the record of one gate taken out: the other implemented gates.
WithoutGate(step, gi) == [step EXCEPT !.implemented_gates = @ \ {gi}]

\* A recorded gate can be replayed: its qubits are mapped, and implement_gate on
\* the step holding the other implemented gates has the recorded implementation
\* among its candidates.
Replayable(step, gi) ==
    /\ GateQubits(gi.gate) \subseteq DOMAIN step.map
    /\ gi.implementation \in implement_gate(WithoutGate(step, gi), arch, gi.gate)

\* C7 (front-layer implementability): for every gate recorded in a pushed step
\* and in a step of a returned result, all qubits of the gate are in the step's
\* map, and implement_gate called on the step with only the step's other
\* implemented gates yields the recorded implementation among its candidates.
C7_FrontLayerImplementability ==
    /\ \A i \in 1..Len(steps) :
          \A gi \in steps[i].implemented_gates : Replayable(steps[i], gi)
    /\ result # None =>
          \A i \in 1..Len(Unwrap(result).steps) :
             \A gi \in Unwrap(result).steps[i].implemented_gates :
                Replayable(Unwrap(result).steps[i], gi)

\* C8 (watchdog on every path): once ISOM_SEARCH_TIMEOUT has passed without a
\* reported embedding, the main flow is no longer waiting for the search and the
\* isomorphism strategy has yielded nothing.
C8_WatchdogBoundsSearch ==
    elapsed => /\ pc \notin {"recv", "isom_call"}
               /\ isom_map = None

\* C9 (watchdog interleavings): in solve, a map comes out of
\* isomorphism_map_with_timeout only when the worker's send succeeded before the
\* timeout fired, and it is the worker's message; once the timeout has fired the
\* strategy's value is None for good, whatever the worker does afterwards, nothing
\* the worker queued survives the return, and the map handed to the first routing
\* run is the annealing result; a worker that is still running can always complete
\* its send, and it ends in "sent" or "send_err", never in a panic.
C9_WatchdogInterleavings ==
    /\ worker \in {"idle", "running", "sent", "send_err"}
    /\ worker = "running" => ENABLED WorkerSend
    /\ chan # <<>> =>
          /\ worker = "sent"
          /\ Len(chan) = 1
          /\ chan[1] \in isomorphism_map(circ, arch)
          /\ pc \in {"recv", "recv_ret"}
          /\ pc = "recv_ret" => elapsed
    /\ (entry = "solve" /\ isom_map # None) =>
          /\ worker = "sent"
          /\ isom_map \in isomorphism_map(circ, arch)
          /\ ~elapsed
    /\ (entry = "solve" /\ elapsed) =>
          /\ isom_map = None
          /\ (pc \in {"route", "loop", "done"}) => (sa_map # None /\ map = sa_map)
    /\ worker = "send_err" => (elapsed /\ ~rx_alive /\ isom_map = None)

\* The worker found an embedding after the timeout had fired and the receiver was
\* gone; the compilation went on and returned a result routed from the annealing map.
C9_Witness ==
    /\ entry = "solve"
    /\ elapsed
    /\ worker = "send_err"
    /\ isomorphism_map(circ, arch) # {None}
    /\ pc = "done"
    /\ result # None
    /\ isom_map = None

C2_MappingInjectivity ==
    /\ isom_map # None => Injective(Unwrap(isom_map))
    /\ current # None => Injective(Unwrap(current))
    /\ best # None => Injective(Unwrap(best))
    /\ sa_map # None => Injective(Unwrap(sa_map))
    /\ map # None => Injective(Unwrap(map))
    /\ \A i \in 1..Len(steps) : Injective(steps[i].map)
    /\ (pc = "loop" /\ steps # <<>>) =>
          LET last == steps[Len(steps)]
          IN \A ts \in transitions(arch, last) :
                \A k \in 1..Len(ts) : Injective(TransApply(ts[k], last).map)
    /\ result # None =>
          \A i \in 1..Len(Unwrap(result).steps) : Injective(Unwrap(result).steps[i].map)

\* The plug-in offers no transition on the last step while gates remain.
NoTransitionLeft ==
    /\ pc = "loop"
    /\ Len(current_circ.gates) > 0
    /\ transitions(arch, steps[Len(steps)]) = {<<>>}

\* C11 (no valid next step): the fatal error 'No valid next step found' is raised
\* only where the plug-in offers no transition on the last step while gates
\* remain, and leaves no result; from such a state route does nothing but raise
\* it; and once the compilation has aborted it stays aborted without a result,
\* in solve and in sabre_solve.
C11_NoValidNextStepAborts ==
    /\ [](panic_at = "No valid next step found" =>
            /\ pc = "panic"
            /\ result = None
            /\ Len(current_circ.gates) > 0
            /\ <<>> \in transitions(arch, steps[Len(steps)]))
    /\ [][(NoTransitionLeft /\ <<pc, route_vars, result>>' # <<pc, route_vars, result>>) =>
            /\ pc' = "panic"
            /\ panic_at' = "No valid next step found"
            /\ result' = None
            /\ UNCHANGED route_vars]_vars
    /\ [][pc = "panic" => (pc' = "panic" /\ result' = None /\ UNCHANGED panic_at)]_vars

C11_Witness ==
    /\ pc = "panic"
    /\ panic_at = "No valid next step found"
    /\ entry = "sabre_solve"
    /\ Len(steps) = 1
    /\ Len(current_circ.gates) > 0
    /\ result = None

\* C12 (shape of the result): once step 0 is pushed, after every iteration of
\* route's loop and in the returned result, there is at least one step and
\* exactly one transition tag fewer than steps.
C12_OneTagPerLaterStep ==
    /\ Routing => (Len(steps) >= 1 /\ Len(trans_taken) = Len(steps) - 1)
    /\ IsSome(result) =>
          /\ Len(Unwrap(result).steps) >= 1
          /\ Len(Unwrap(result).transitions) = Len(Unwrap(result).steps) - 1

C12_Witness ==
    /\ IsSome(result)
    /\ Len(Unwrap(result).steps) = 3
    /\ Len(Unwrap(result).transitions) = 2

\* The architecture graph without the blocked locations and their edges.
Unblocked(a, blocked) ==
    LET Stays(e) == e[1] \notin Range(blocked) /\ e[2] \notin Range(blocked)
    IN [a EXCEPT !.edges = SelectSeq(a.edges, Stays)]

\* The hop distances of the connected pairs of unblocked starts and ends.
PairDistances(a, starts, ends, blocked) ==
    LET free == Nodes(a) \ Range(blocked)
        found == {astar(Unblocked(a, blocked), st, en) :
                    st \in Range(starts) \cap free, en \in Range(ends) \cap free}
    IN {Unwrap(o) : o \in {x \in found : IsSome(x)}}

\* C13 (shortest path with a blocked set): for distinct blocked graph locations,
\* shortest_path returns nothing exactly when no unblocked start reaches an
\* unblocked end in the graph without the blocked locations; otherwise it returns
\* a path from a start to an end along edges of the graph, with no blocked
\* location, whose number of edges is the least hop distance over all such pairs.
C13_ShortestPath ==
    (entry = "shortest_path" /\ pc = "done") =>
        LET path == Unwrap(ret)
            ds == PairDistances(arch, args.starts, args.ends, args.blocked)
        IN /\ path = None <=> ds = {}
           /\ path # None =>
                LET p == Unwrap(path)
                IN /\ p[1] \in Range(args.starts)
                   /\ p[Len(p)] \in Range(args.ends)
                   /\ \A i \in 1..(Len(p) - 1) : contains_edge(arch, p[i], p[i + 1])
                   /\ Range(p) \cap Range(args.blocked) = {}
                   /\ \A d \in ds : Len(p) - 1 <= d
                   /\ Len(p) - 1 \in ds

C13_Witness ==
    /\ entry = "shortest_path"
    /\ pc = "done"
    /\ arch.kind = "ilq"
    /\ Len(args.blocked) = 2
    /\ Len(args.starts) = 2
    /\ Len(args.ends) = 2
    /\ IsSome(Unwrap(ret))
    /\ Len(Unwrap(Unwrap(ret))) = 4

\* The items the all_paths iterator has yielded so far.
Yielded == IF entry = "all_paths" /\ pc \in {"iter", "done"} THEN Unwrap(ret) ELSE <<>>

\* C14 (soundness of the path enumeration): every path all_paths yields visits no
\* location twice, starts at one of the starts, ends at one of the ends, holds no
\* blocked location and follows edges of the architecture graph.
C14_PathsSound ==
    \A n \in 1..Len(Yielded) :
        LET p == Yielded[n]
        IN /\ \A i, j \in 1..Len(p) : i # j => p[i] # p[j]
           /\ p[1] \in Range(args.starts)
           /\ p[Len(p)] \in Range(args.ends)
           /\ Range(p) \cap Range(args.blocked) = {}
           /\ \A i \in 1..(Len(p) - 1) : contains_edge(arch, p[i], p[i + 1])

\* The simple paths of the graph without the blocked locations that lead from a
\* start to an end.
SimplePaths(a, starts, ends, blocked) ==
    LET free == [edges |-> Range(Unblocked(a, blocked).edges)]
        from == Range(starts) \cap (Nodes(a) \ Range(blocked))
        walks == UNION {SimpleWalks(free, st, k) : st \in from, k \in 0..(a.n - 1)}
    IN {w \in walks : w[Len(w)] \in Range(ends)}

\* C15 (completeness of the path enumeration): once the all_paths iterator has
\* returned None, every simple path from an unblocked start to an end that avoids
\* the blocked locations has been yielded.
C15_PathsComplete ==
    (entry = "all_paths" /\ pc = "done") =>
        SimplePaths(arch, args.starts, args.ends, args.blocked) \subseteq Range(Yielded)

\* The position of the previous gate on qubit q before position i (0 when none).
PreviousOn(gates, i, q) ==
    LET js == {j \in 1..(i - 1) : q \in GateQubits(gates[j])}
    IN IF js = {} THEN 0 ELSE CHOOSE j \in js : \A k \in js : k <= j

\* C16 (criticality monotonicity): the table build_criticality_table returns gives
\* every gate of the circuit a criticality above 0 that is at least the criticality
\* of the previous gate, in circuit order, on each of the gate's qubits.
C16_CriticalityMonotone ==
    (entry = "build_criticality_table" /\ pc = "done") =>
        LET criticality == Unwrap(ret)
        IN \A i \in 1..Len(circ.gates) :
              /\ circ.gates[i].id \in DOMAIN criticality
              /\ criticality[circ.gates[i].id] > 0
              /\ \A q \in GateQubits(circ.gates[i]) :
                    LET j == PreviousOn(circ.gates, i, q)
                    IN j > 0 => criticality[circ.gates[i].id] >= criticality[circ.gates[j].id]

C16_Witness ==
    /\ entry = "build_criticality_table"
    /\ pc = "done"
    /\ Len(circ.gates) = 3
    /\ PreviousOn(circ.gates, 3, circ.gates[3].qubits[1]) = 1
    /\ PreviousOn(circ.gates, 3, circ.gates[3].qubits[2]) = 2
    /\ Unwrap(ret)[circ.gates[3].id] = 3

\* The call of drop_zeros_and_normalize has returned, and a value was not zero.
NormalizeReturned ==
    /\ entry = "drop_zeros_and_normalize"
    /\ pc = "done"
    /\ \E i \in 1..Len(args.vs) : args.vs[i] # 0

\* The sum of w * v, of the weights of the nonzero values, and of |w * v|.
SumWV == SeqSum([i \in 1..Len(args.vs) |-> args.ws[i] * args.vs[i]])
SumW == SeqSum([i \in 1..Len(args.vs) |-> IF args.vs[i] # 0 THEN args.ws[i] ELSE 0])
SumAbsWV == SeqSum([i \in 1..Len(args.vs) |-> Abs(args.ws[i] * args.vs[i])])

Swaps(r) == Cardinality({i \in 1..Len(r.transitions) : r.transitions[i][2] # r.transitions[i][3]})

\* C18 (scenario S1): on the path graph over 3 nodes, for the circuit CX q0,q1;
\* CX q1,q2; CX q0,q2, nisq_solve returns exactly 3 steps with exactly one
\* transition that is a SWAP and total cost 1.0, whatever initial mapping the
\* mapping search returns.
C18_ScenarioS1 ==
    IsSome(result) =>
        /\ Len(Unwrap(result).steps) = 3
        /\ Swaps(Unwrap(result)) = 1
        /\ Unwrap(result).cost = 1

\* The circuit a pass of sabre_solve has to route: passes 0, 2, 4 and the final
\* pass 6 the circuit, passes 1, 3, 5 its reverse.
PassCircuit == IF pass \in {1, 3, 5} THEN reversed(circ) ELSE circ

\* The gates of the pass's circuit that no pushed step holds, in its order.
PassRemaining ==
    LET done == UNION {StepIds(steps[i]) : i \in 1..Len(steps)}
        Left(g) == g.id \notin done
    IN SelectSeq(PassCircuit.gates, Left)

\* C19 (SABRE passes): sabre_solve routes the circuit and its reverse alternately,
\* three rounds of two passes, then the circuit once more; every pass after the
\* first starts from the map of the last step of the pass before it; and the
\* result returned is the run of the final forward pass.
C19_SabrePasses ==
    /\ [](entry = "sabre_solve" =>
            /\ pass \in 0..6
            /\ (pc = "route" /\ pass > 0) => map = Some(steps[Len(steps)].map)
            /\ Routing =>
                  /\ steps[1].map = Unwrap(map)
                  /\ StepIds(steps[1]) \subseteq CircIds(circuit_from_gates(get_front_layer(PassCircuit)))
                  /\ current_circ.gates = PassRemaining
            /\ IsSome(result) =>
                  /\ pass = 6
                  /\ pc = "done"
                  /\ Unwrap(result) = [steps |-> steps, transitions |-> trans_taken, cost |-> cost])
    /\ [][(entry = "sabre_solve" /\ pc = "loop" /\ pc' # "loop" /\ pc' # "panic") =>
            /\ current_circ.gates = <<>>
            /\ IF pass < 6
               THEN pc' = "route" /\ pass' = pass + 1 /\ result' = None
               ELSE pc' = "done" /\ pass' = pass /\ IsSome(result')]_vars

C19_Witness ==
    /\ entry = "sabre_solve"
    /\ IsSome(result)
    /\ pass = 6
    /\ Len(circ.gates) = 2
    /\ Len(Unwrap(result).steps) = 2
    /\ IsSome(sa_map)
    /\ Unwrap(map) # Unwrap(sa_map)

\* C20 (determinism): a second run of solve on the same circuit, architecture and
\* plug-in callbacks returns the same steps, transition tags and cost as the
\* first run.
C20_SameResultTwice ==
    (IsSome(ret) /\ IsSome(result)) => result = ret

Disjoint(gates, from, to) ==
    \A i, j \in from..to : i # j => GateQubits(gates[i]) \cap GateQubits(gates[j]) = {}

\* The longest prefix of the gates in which each qubit appears in at most one gate.
DisjointPrefix(gates) ==
    LET ks == {k \in 0..Len(gates) : Disjoint(gates, 1, k)}
    IN SubSeq(gates, 1, CHOOSE k \in ks : \A j \in ks : j <= k)

\* C22 as stated (front layer): get_front_layer returns the longest prefix of the
\* gate sequence in which each qubit appears in at most one gate.
C22_FrontLayerIsPrefix ==
    (entry = "get_front_layer" /\ pc = "done") => Unwrap(ret) = DisjointPrefix(circ.gates)

\* C22 (front layer, amended): get_front_layer returns, in circuit order, exactly
\* the gates none of whose qubits appears in an earlier gate of the sequence; the
\* returned gates pairwise share no qubit and begin with the longest prefix in
\* which each qubit appears in at most one gate, but gates after that prefix can
\* follow.
C22_FrontLayerUnblockedGates ==
    (entry = "get_front_layer" /\ pc = "done") =>
        LET front == Unwrap(ret)
            prefix == DisjointPrefix(circ.gates)
            Unblocked_at(i) == \A j \in 1..(i - 1) :
                                  GateQubits(circ.gates[j]) \cap GateQubits(circ.gates[i]) = {}
            Ids(gs) == [i \in 1..Len(gs) |-> gs[i].id]
        IN /\ {front[i] : i \in 1..Len(front)} =
                {circ.gates[i] : i \in {k \in 1..Len(circ.gates) : Unblocked_at(k)}}
           /\ \A i, j \in 1..Len(front) : i < j => front[i].id < front[j].id
           /\ Disjoint(front, 1, Len(front))
           /\ SubSeq(front, 1, Len(prefix)) = prefix

C22_Witness ==
    /\ entry = "get_front_layer"
    /\ pc = "done"
    /\ Len(circ.gates) = 3
    /\ Len(Unwrap(ret)) = 2
    /\ Unwrap(ret)[1] = circ.gates[1]
    /\ Unwrap(ret)[2] = circ.gates[3]

\* The f64 comparison x <= y: false whenever an operand is NaN.
ScoreLeq(x, y) == /\ ~x.nan
                  /\ ~y.nan
                  /\ x.num * y.den <= y.num * x.den

AllZero(v) == \A i \in 1..Len(v) : v[i] = 0

\* The score the selection is specified on: the normalized weighted sum, and 0
\* for a candidate whose values are all zero.
SpecScore(v) ==
    IF AllZero(v) THEN Ratio(0, 1)
    ELSE drop_zeros_and_normalize(<<ALPHA, BETA, GAMMA, DELTA>>, v)

FindBestReturned == entry = "find_best_next_step" /\ pc = "done"

\* C23 (selection of the next step): the step find_best_next_step returns is the
\* step of a transition whose score is the minimum over the candidates of all the
\* transitions the generator yields, and of the candidates with that score it is
\* the one yielded first.
C23_LowestScoreFirstYielded ==
    FindBestReturned =>
        LET i == Unwrap(ret).trans
        IN \A j \in 1..Len(args.vals) :
              /\ ScoreLeq(SpecScore(args.vals[i]), SpecScore(args.vals[j]))
              /\ j < i => ScoreLess(SpecScore(args.vals[i]), SpecScore(args.vals[j]))

\* C24 (all-zero scoring input): drop_zeros_and_normalize returns 0 when every
\* value is zero, and in find_best_next_step a candidate whose values are all zero
\* is ordered as the number 0: it is returned only when no candidate scores below
\* 0, and no candidate scoring above 0 is returned in its place.
C24_AllZeroScoresZero ==
    /\ (entry = "drop_zeros_and_normalize" /\ pc = "done" /\ AllZero(args.vs)) =>
           ~Unwrap(ret).nan /\ Unwrap(ret).num = 0
    /\ FindBestReturned =>
           \A j \in {k \in 1..Len(args.vals) : AllZero(args.vals[k])} :
              LET i == Unwrap(ret).trans
                  zero == Ratio(0, 1)
              IN IF i = j
                 THEN \A k \in 1..Len(args.vals) :
                         ~ScoreLess(SpecScore(args.vals[k]), zero)
                 ELSE ~ScoreLess(zero, SpecScore(args.vals[i]))

\* C25 (criticality from the gate's own qubits): the depth build_criticality_table
\* gives a gate is 1 plus the largest depth recorded by an earlier gate on one of
\* the gate's own qubits (0 when no earlier gate acts on them).
C25_DepthFromOwnQubits ==
    (entry = "build_criticality_table" /\ pc = "done") =>
        LET depth == Unwrap(ret)
            Before(i) == {depth[circ.gates[PreviousOn(circ.gates, i, q)].id] :
                            q \in {x \in GateQubits(circ.gates[i]) :
                                     PreviousOn(circ.gates, i, x) > 0}}
        IN \A i \in 1..Len(circ.gates) :
              \A d \in Before(i) \cup {0} :
                 (\A e \in Before(i) : e <= d) => depth[circ.gates[i].id] = d + 1

\* The route loop has appended a step chosen by find_best_next_step.
StepChosen == pc = "loop" /\ pc' = "loop" /\ Len(steps') = Len(steps) + 1

\* No transition makes a gate schedulable or changes the map: every candidate of
\* find_best_next_step on the last step implements no gate on the last step's map.
NoProgressPossible ==
    LET last_step == steps[Len(steps)]
    IN \A ts \in transitions(arch, last_step) : \A i \in 1..Len(ts) :
          \A cand \in Candidates(ts[i], current_circ, arch, last_step, crit_table) :
             /\ cand.step.implemented_gates = {}
             /\ cand.step.map = last_step.map

\* C26 (infeasible mapping): when no transition makes a gate schedulable the run
\* ends with a fatal error; the route loop never appends a step in that situation.
C26_InfeasibleMappingAborts ==
    [][StepChosen => ~NoProgressPossible]_vars

RECURSIVE CooledBy(_, _, _)
\* The temperature after n coolings.
CooledBy(t, rate, n) == IF n = 0 THEN t ELSE CooledBy(Cool(t, rate), rate, n - 1)

\* C27 (simulated annealing returns the best-ever state): best never costs more
\* than the start state or any neighbor generated so far, the state returned is
\* best, and the loop runs exactly while the temperature, multiplied by the cool
\* rate in each iteration, is above the terminal temperature.
C27_BestEverReturned ==
    /\ (entry = "simulated_anneal" /\ pc \in {"anneal_loop", "done"}) =>
           /\ args.start \in generated
           /\ Unwrap(best) \in generated
           /\ \A g \in generated :
                 args.cost_function[Unwrap(best)] <= args.cost_function[g]
           /\ temp = CooledBy(args.initial_temp, args.cool_rate, iter)
           /\ \A n \in 0..(iter - 1) :
                 Hotter(CooledBy(args.initial_temp, args.cool_rate, n), args.term_temp)
    /\ (entry = "simulated_anneal" /\ pc = "done") =>
           /\ ret = best
           /\ ~Hotter(temp, args.term_temp)

C27_Witness ==
    /\ entry = "simulated_anneal"
    /\ pc = "done"
    /\ iter >= 2
    /\ Unwrap(ret) # args.start
    /\ args.cost_function[Unwrap(current)] > args.cost_function[Unwrap(ret)]
    /\ generated = AnnealStates

\* The gates at positions i < j of c share a qubit.
Dependent(c, i, j) ==
    i < j /\ GateQubits(c.gates[i]) \cap GateQubits(c.gates[j]) # {}

\* In the steps ss the gates of c keep their dependency order: when the later of
\* two gates sharing a qubit is implemented, the earlier one is implemented in a
\* strictly earlier step; and no step holds two gates sharing a qubit.
DependencyOrdered(ss, c) ==
    /\ \A i, j \in 1..Len(c.gates) :
          Dependent(c, i, j) =>
             \A b \in 1..Len(ss) :
                c.gates[j].id \in StepIds(ss[b]) =>
                   \E a \in 1..(b - 1) : c.gates[i].id \in StepIds(ss[a])
    /\ \A a \in 1..Len(ss) : \A g1, g2 \in StepGates(ss[a]) :
          g1.id # g2.id => GateQubits(g1) \cap GateQubits(g2) = {}

\* C28 (dependency order): in the steps of a routing run and in the returned
\* result, of two gates sharing a qubit the earlier in circuit order is
\* implemented in a strictly earlier step than the later, and no step contains
\* two gates sharing a qubit.
C28_DependencyOrder ==
    /\ Routing => DependencyOrdered(steps, route_circ)
    /\ result # None => DependencyOrdered(Unwrap(result).steps, circ)

C28_Witness ==
    /\ result # None
    /\ \E i, j \in 1..Len(circ.gates) :
          /\ Dependent(circ, i, j)
          /\ \E a, b \in 1..Len(Unwrap(result).steps) :
                /\ a < b
                /\ circ.gates[i].id \in StepIds(Unwrap(result).steps[a])
                /\ circ.gates[j].id \in StepIds(Unwrap(result).steps[b])

\* The map m has the circuit's qubit set as its domain and maps into arch.locations().
WellFormedMap(m) ==
    /\ DOMAIN m = circ.qubits
    /\ {m[q] : q \in DOMAIN m} \subseteq Range(locations(arch))

\* C29 (mapping domain and range): in every step of a returned result the domain
\* of the map is the circuit's qubit set and every mapped location is one of
\* arch.locations(); the same holds of the initial maps random_map, the annealing
\* and isomorphism_map produce, and of the map of every step the transitions lead
\* to.
C29_MapDomainAndRange ==
    /\ result # None =>
          \A i \in 1..Len(Unwrap(result).steps) : WellFormedMap(Unwrap(result).steps[i].map)
    /\ \A m \in {isom_map, current, best, sa_map, map} : m # None => WellFormedMap(Unwrap(m))
    /\ \A i \in 1..Len(steps) : WellFormedMap(steps[i].map)

\* The work left to the route loop after the steps ss with the working circuit
\* cc: the number of remaining gates, and the sum of the distances between the
\* qubits of the front-layer gates under the last step's map.
WorkLeft(ss, cc) ==
    <<Len(cc.gates),
      nisq_mapping_heuristic(arch, circuit_from_gates(get_front_layer(cc)), ss[Len(ss)].map)>>

====
